---- MODULE Spec2Model ----
(***************************************************************************)
(* Poll lifecycle engine of the availability-poll bot: the vote store      *)
(* (database_manager.py), the reaction reconciler (main.py), the publisher *)
(* and the per-guild trigger registry (scheduler.py, commands.py).         *)
(*                                                                         *)
(* The chat platform is the environment: it keeps the live reactions of    *)
(* every message, delivers reaction events in order, and answers the calls *)
(* a handler awaits.  A handler runs without interruption between two      *)
(* awaits; at an await any other task of the event loop may run.           *)
(***************************************************************************)
EXTENDS Integers, Sequences, FiniteSets, TLC

\* ------------------------------------------------------------------ bounds
MaxUsers == 2       \* human users 1..MaxUsers
MaxEmoji == 2       \* users react with emojis 0..MaxEmoji
MaxEvents == 3      \* reaction changes made by users in one behaviour
MaxCmds == 3        \* admin commands issued in one behaviour
MaxTicks == 2       \* clock advances in one behaviour

\* ------------------------------------------------------- program constants
PaletteSize == 7    \* len(self.poll_emojis)
MaxOptions == 7     \* poll_options[:7]
KeepPolls == 3      \* .offset(3)
KeepHistory == 2    \* len(poll_history) >= 2

Bot == 0
Users == 1..MaxUsers
Actors == {Bot} \cup Users
\* Emoji i in 1..PaletteSize is self.poll_emojis[i-1]; emoji 0 stands for any
\* emoji outside the palette.
poll_emojis == [i \in 1..PaletteSize |-> i]
ReactEmojis == 0..MaxEmoji
Guilds == {"g1", "g2"}

Min(a, b) == IF a < b THEN a ELSE b
Take(s, n) == SubSeq(s, 1, Min(n, Len(s)))
Range(s) == {s[i] : i \in DOMAIN s}
RECURSIVE SetToSeq(_)
\* A finite set of integers as the ascending sequence of its elements.
SetToSeq(S) ==
  IF S = {} THEN <<>>
  ELSE LET x == CHOOSE y \in S : \A z \in S : y <= z
       IN <<x>> \o SetToSeq(S \ {x})

VARIABLES
  messages,      \* message handles that exist on the platform
  live,          \* <<message, actor, emoji>>: reactions live on the platform
  rendered,      \* message handle -> the tally last written into the message
  nextMsg,       \* the handle the platform gives the next message sent
  cache,         \* <<message, actor, emoji>>: message.reactions as the client knows them
  events,        \* reaction events in flight, in delivery order
  nEvents,       \* reaction changes made so far
  handlers,      \* the reconciliation tasks of the event loop
  lost,          \* user -> what became of a lost reaction-removed event
  polls,         \* rows of table polls, in insertion order
  votes,         \* rows of table votes, in insertion order
  servers,       \* guild ids that have a row in table server_configs
  clock,         \* the database clock behind created_at
  heap,          \* the config dicts ever created, by object identity
  configs,       \* config_manager.configs: guild -> index of its dict in heap, 0 if none
  jobs,          \* the scheduler's job store
  now,           \* wall-clock time, in minutes
  nTicks,        \* clock advances made so far
  nCmds,         \* admin commands issued so far
  active_polls,  \* bot.active_polls: message handle -> poll_info
  pubs,          \* the publish tasks of the event loop
  joined,        \* bot.guilds: the guilds the bot is a member of
  lastOp         \* the operation that produced the current state, with its arguments

platVars == <<messages, live, rendered, nextMsg>>
gateVars == <<cache, events, nEvents, handlers, lost>>
dbVars == <<polls, votes, servers, clock>>
cfgVars == <<heap, configs>>
schedVars == <<jobs, now, nTicks, nCmds>>
botVars == <<active_polls, pubs, joined>>
vars == <<platVars, gateVars, dbVars, cfgVars, schedVars, botVars, lastOp>>

\* ------------------------------------------------------------- vote store
PollExists(ps, m) == \E i \in DOMAIN ps : ps[i].message_id = m

\* session.query(Vote).filter_by(poll_id, user_id).first(): index of the row, 0 if none
FirstVote(vs, m, u) ==
  LET hits == {i \in DOMAIN vs : vs[i].message_id = m /\ vs[i].user_id = u}
  IN IF hits = {} THEN 0 ELSE CHOOSE i \in hits : \A j \in hits : i <= j

RemoveAt(s, i) == SubSeq(s, 1, i - 1) \o SubSeq(s, i + 1, Len(s))

display_name(u) == u

\* save_vote without the lookup of the existing row
save_vote_always_insert(vs, ps, m, u, e) ==
  IF ~PollExists(ps, m) THEN vs
  ELSE Append(vs, [message_id |-> m, user_id |-> u,
                   display_name |-> display_name(u), emoji |-> e])

save_vote(vs, ps, m, u, e) ==
  IF ~PollExists(ps, m) THEN vs
  ELSE LET i == FirstVote(vs, m, u)
       IN IF i > 0
          THEN [vs EXCEPT ![i].emoji = e, ![i].display_name = display_name(u)]
          ELSE Append(vs, [message_id |-> m, user_id |-> u,
                           display_name |-> display_name(u), emoji |-> e])

\* remove_vote that takes the user's first vote on any poll
remove_vote_any_poll(vs, ps, m, u) ==
  IF ~PollExists(ps, m) THEN vs
  ELSE LET hits == {i \in DOMAIN vs : vs[i].user_id = u}
       IN IF hits = {} THEN vs
          ELSE RemoveAt(vs, CHOOSE i \in hits : \A j \in hits : i <= j)

remove_vote(vs, ps, m, u) ==
  IF ~PollExists(ps, m) THEN vs
  ELSE LET i == FirstVote(vs, m, u)
       IN IF i > 0 THEN RemoveAt(vs, i) ELSE vs

VotesOf(vs, m) == SelectSeq(vs, LAMBDA v : v.message_id = m)

RECURSIVE Names(_)
Names(rows) ==
  IF rows = <<>> THEN <<>> ELSE <<Head(rows).display_name>> \o Names(Tail(rows))

\* emoji -> display names, each group in row order; only emojis that have a vote
get_poll_votes(vs, ps, m) ==
  IF ~PollExists(ps, m) THEN <<>>
  ELSE LET mine == VotesOf(vs, m)
       IN [e \in {mine[i].emoji : i \in DOMAIN mine} |->
             Names(SelectSeq(mine, LAMBDA v : v.emoji = e))]

\* ---------------------------------------------------------- reconciliation
Idle == [pc |-> "idle", msg |-> 0, idx |-> 0, users |-> {}, tally |-> <<>>,
         since |-> {}]
\* one task per event delivered: no bound on the handlers running at once
HandlerIds == 1..MaxEvents
Quiet == events = <<>> /\ \A h \in HandlerIds : handlers[h].pc = "idle"
FreeSlot(h) ==
  /\ handlers[h].pc = "idle"
  /\ \A k \in HandlerIds : k < h => handlers[k].pc # "idle"

\* for reaction in poll_message.reactions: if str(reaction.emoji) == emoji
InReactions(c, m, e) == \E a \in Actors : <<m, a, e>> \in c

\* The first index i >= from of poll_info['emojis'] whose emoji is found in
\* poll_message.reactions; Len + 1 when the loop over the emojis is finished.
NextIdx(c, m, emojis, from) ==
  LET hits == {i \in from..Len(emojis) : InReactions(c, m, emojis[i])}
  IN IF hits = {} THEN Len(emojis) + 1
     ELSE CHOOSE i \in hits : \A j \in hits : i <= j

RECURSIVE SaveEach_with_bots(_, _, _, _, _)
\* the loop over reaction.users() without the `if not user.bot` test
SaveEach_with_bots(vs, ps, m, us, e) ==
  IF us = <<>> THEN vs
  ELSE SaveEach_with_bots(save_vote(vs, ps, m, Head(us), e), ps, m, Tail(us), e)

RECURSIVE SaveEach(_, _, _, _, _)
\* async for user in reaction.users(): if not user.bot: save_vote(...)
SaveEach(vs, ps, m, us, e) ==
  IF us = <<>> THEN vs
  ELSE SaveEach(IF Head(us) = Bot THEN vs ELSE save_vote(vs, ps, m, Head(us), e),
                ps, m, Tail(us), e)

\* update_poll_results from emoji index `from` to its next await: either the
\* enumeration of the users of the next reaction found, or the edit of the
\* message with the tally read after the loop.
RunToAwait(vs, ps, c, m, info, from, since) ==
  LET i == NextIdx(c, m, info.emojis, from)
  IN IF i <= Len(info.emojis)
     THEN [pc |-> "users_sent", msg |-> m, idx |-> i, users |-> {},
           tally |-> <<>>, since |-> since]
     ELSE [pc |-> "edit", msg |-> m, idx |-> i, users |-> {},
           tally |-> get_poll_votes(vs, ps, m), since |-> since]

Missed == {u \in Users : lost[u] = "lost"}

\* A user adds a reaction on the platform; the event is queued for delivery.
UserAddReaction(u, m, e) ==
  /\ m \in messages /\ <<m, u, e>> \notin live
  /\ nEvents < MaxEvents
  /\ live' = live \cup {<<m, u, e>>}
  /\ events' = Append(events, [kind |-> "add", msg |-> m, user |-> u, emoji |-> e])
  /\ nEvents' = nEvents + 1
  /\ UNCHANGED <<messages, rendered, nextMsg, cache, handlers, lost>>
  /\ UNCHANGED <<dbVars, cfgVars, schedVars, botVars, lastOp>>

\* A user removes one of their reactions on the platform.
UserRemoveReaction(u, m, e) ==
  /\ <<m, u, e>> \in live
  /\ nEvents < MaxEvents
  /\ live' = live \ {<<m, u, e>>}
  /\ events' = Append(events, [kind |-> "remove", msg |-> m, user |-> u, emoji |-> e])
  /\ nEvents' = nEvents + 1
  /\ UNCHANGED <<messages, rendered, nextMsg, cache, handlers, lost>>
  /\ UNCHANGED <<dbVars, cfgVars, schedVars, botVars, lastOp>>

\* a handler that removes the actor's vote before it looks the message up
OnReaction_remove_first(ev, h) ==
  IF ev.user = Bot
  THEN UNCHANGED <<votes, handlers>>
  ELSE LET vs == remove_vote(votes, polls, ev.msg, ev.user)
       IN /\ votes' = vs
          /\ IF ev.msg \notin DOMAIN active_polls
             THEN UNCHANGED handlers
             ELSE handlers' = [handlers EXCEPT ![h] =
                    RunToAwait(vs, polls, cache', ev.msg, active_polls[ev.msg], 1,
                               Missed \ {ev.user})]

\* The handler body shared by on_reaction_add and on_reaction_remove: the
\* actor's vote is removed and update_poll_results runs to its first await.
OnReaction(ev, h) ==
  IF ev.user = Bot \/ ev.msg \notin DOMAIN active_polls
  THEN UNCHANGED <<votes, handlers>>
  ELSE LET vs == remove_vote(votes, polls, ev.msg, ev.user)
       IN /\ votes' = vs
          /\ handlers' = [handlers EXCEPT ![h] =
               RunToAwait(vs, polls, cache', ev.msg, active_polls[ev.msg], 1,
                          Missed \ {ev.user})]

on_reaction_add(h) ==
  /\ events # <<>> /\ Head(events).kind = "add" /\ FreeSlot(h)
  /\ LET ev == Head(events)
     IN /\ cache' = cache \cup {<<ev.msg, ev.user, ev.emoji>>}
        /\ lost' = IF ev.user \in Users THEN [lost EXCEPT ![ev.user] = "none"] ELSE lost
        /\ OnReaction(ev, h)
  /\ events' = Tail(events)
  /\ UNCHANGED <<platVars, nEvents, polls, servers, clock>>
  /\ UNCHANGED <<cfgVars, schedVars, botVars, lastOp>>

on_reaction_remove(h) ==
  /\ events # <<>> /\ Head(events).kind = "remove" /\ FreeSlot(h)
  /\ LET ev == Head(events)
     IN /\ cache' = cache \ {<<ev.msg, ev.user, ev.emoji>>}
        /\ lost' = IF ev.user \in Users THEN [lost EXCEPT ![ev.user] = "none"] ELSE lost
        /\ OnReaction(ev, h)
  /\ events' = Tail(events)
  /\ UNCHANGED <<platVars, nEvents, polls, servers, clock>>
  /\ UNCHANGED <<cfgVars, schedVars, botVars, lastOp>>

\* The platform answers reaction.users(): the users it lists are those live
\* when it serves the request; the handler has not resumed yet.
UsersAnswered(h) ==
  /\ handlers[h].pc = "users_sent"
  /\ LET t == handlers[h]
         e == active_polls[t.msg].emojis[t.idx]
     IN handlers' = [handlers EXCEPT ![h].pc = "users_got",
                       ![h].users = {a \in Actors : <<t.msg, a, e>> \in live}]
  /\ UNCHANGED <<cache, events, nEvents, lost>>
  /\ UNCHANGED <<platVars, dbVars, cfgVars, schedVars, botVars, lastOp>>

\* The handler resumes with the users listed, saves a vote for each and runs
\* on to its next await.
update_poll_results(h) ==
  /\ handlers[h].pc = "users_got"
  /\ LET t == handlers[h]
         info == active_polls[t.msg]
         vs == SaveEach(votes, polls, t.msg, SetToSeq(t.users), info.emojis[t.idx])
     IN /\ votes' = vs
        /\ handlers' = [handlers EXCEPT ![h] =
             RunToAwait(vs, polls, cache, t.msg, info, t.idx + 1, t.since)]
  /\ UNCHANGED <<cache, events, nEvents, lost, polls, servers, clock>>
  /\ UNCHANGED <<platVars, cfgVars, schedVars, botVars, lastOp>>

\* poll_message.edit(embed=embed) completes: the message shows the tally.
EditDone(h) ==
  /\ handlers[h].pc = "edit"
  /\ rendered' = IF handlers[h].msg \in messages
                 THEN [rendered EXCEPT ![handlers[h].msg] = handlers[h].tally]
                 ELSE rendered
  /\ lost' = [u \in Users |->
                IF u \in handlers[h].since /\ lost[u] = "lost" THEN "resynced"
                ELSE lost[u]]
  /\ handlers' = [handlers EXCEPT ![h] = Idle]
  /\ UNCHANGED <<messages, live, nextMsg, cache, events, nEvents>>
  /\ UNCHANGED <<dbVars, cfgVars, schedVars, botVars, lastOp>>

\* A reaction event is lost on its way (a gateway gap): no handler runs for it.
LoseEvent ==
  /\ events # <<>>
  /\ LET ev == Head(events)
     IN lost' = IF ev.kind = "remove" /\ ev.user \in Users
                THEN [lost EXCEPT ![ev.user] = "lost"] ELSE lost
  /\ events' = Tail(events)
  /\ UNCHANGED <<cache, nEvents, handlers>>
  /\ UNCHANGED <<platVars, dbVars, cfgVars, schedVars, botVars, lastOp>>

\* ------------------------------------------------------------ config store
NoChannel == "none"
Channels == {"c1"}
\* option texts are numbered; the 7 built-in texts are 1..7
DefaultOptions == [i \in 1..7 |-> i]

get_default_config ==
  [enabled |-> FALSE, channel_id |-> NoChannel, poll_hour |-> 8, poll_minute |-> 0,
   timezone |-> "UTC", poll_options |-> DefaultOptions, poll_history |-> <<>>]

\* get_guild_config that hands out the defaults without registering them
get_guild_config_unsaved(hp, cf, g) ==
  IF cf[g] # 0 THEN [heap |-> hp, configs |-> cf, id |-> cf[g]]
  ELSE [heap |-> Append(hp, get_default_config), configs |-> cf, id |-> Len(hp) + 1]

\* get_guild_config: the guild's dict, created with the defaults when the
\* guild has none.  The result is the heap and the registry after the call
\* and the index of the dict.
get_guild_config(hp, cf, g) ==
  IF cf[g] # 0 THEN [heap |-> hp, configs |-> cf, id |-> cf[g]]
  ELSE [heap |-> Append(hp, get_default_config),
        configs |-> [cf EXCEPT ![g] = Len(hp) + 1], id |-> Len(hp) + 1]

\* -------------------------------------------------------------- scheduler
MinutesPerDay == 24 * 60
KnownZones == {"UTC", "Europe/Sofia", "America/New_York"}
\* Offset of local time from UTC, in minutes.  Zones keep one offset: the
\* daylight-saving switches of a zone are outside this model.
UtcOffset(tz) ==
  CASE tz = "UTC" -> 0
    [] tz = "Europe/Sofia" -> 120
    [] tz = "America/New_York" -> 0 - 300

LocalMinuteOfDay(t, tz) == (t + UtcOffset(tz)) % MinutesPerDay
LocalHour(t, tz) == LocalMinuteOfDay(t, tz) \div 60
LocalMinute(t, tz) == LocalMinuteOfDay(t, tz) % 60

\* The trigger's next occurrence after instant t: the first instant later
\* than t at which the zone's clock shows hour:minute.  (t is an instant
\* inside its minute, so an occurrence at the start of minute t is past.)
get_next_fire_time(trigger, t) ==
  LET target == 60 * trigger.hour + trigger.minute
      cur == LocalMinuteOfDay(t, trigger.timezone)
  IN IF target > cur THEN t + (target - cur)
     ELSE t + (target - cur) + MinutesPerDay

\* get_next_poll_time's None
None == 0 - 1
JobId(g) == <<"daily_poll", g>>
JobIndex(js, id) ==
  LET hits == {i \in DOMAIN js : js[i].id = id}
  IN IF hits = {} THEN 0 ELSE CHOOSE i \in hits : \A j \in hits : i <= j
\* scheduler.get_job(id) is not None
has_job(js, id) == JobIndex(js, id) # 0
get_job(js, id) == js[JobIndex(js, id)]
remove_job(js, id) == RemoveAt(js, JobIndex(js, id))

\* scheduler.add_job(..., id=job_id, replace_existing=True) on a running
\* scheduler: a job with the same id is replaced, otherwise the job is added.
add_job(js, trigger, g, id, t) ==
  LET job == [id |-> id, guild |-> g, trigger |-> trigger,
              next_run_time |-> get_next_fire_time(trigger, t)]
  IN IF JobIndex(js, id) = 0 THEN Append(js, job)
     ELSE [js EXCEPT ![JobIndex(js, id)] = job]

\* pytz.timezone(name) and CronTrigger(hour, minute, timezone) both succeed
ValidSchedule(config) ==
  /\ config.timezone \in KnownZones
  /\ config.poll_hour \in 0..23
  /\ config.poll_minute \in 0..59

CronTrigger(hour, minute, timezone) ==
  [hour |-> hour, minute |-> minute, timezone |-> timezone]

\* schedule_guild_poll that adds the job without looking for an existing one
schedule_guild_poll_append(js, g, config, t) ==
  IF ~ValidSchedule(config) THEN js
  ELSE Append(js, [id |-> JobId(g), guild |-> g,
                   trigger |-> CronTrigger(config.poll_hour, config.poll_minute,
                                           config.timezone),
                   next_run_time |->
                     get_next_fire_time(CronTrigger(config.poll_hour,
                                          config.poll_minute, config.timezone), t)])

\* schedule_guild_poll that ignores the configured zone
schedule_guild_poll_utc(js, g, config, t) ==
  IF ~ValidSchedule(config) THEN js
  ELSE add_job(IF has_job(js, JobId(g)) THEN remove_job(js, JobId(g)) ELSE js,
               CronTrigger(config.poll_hour, config.poll_minute, "UTC"),
               g, JobId(g), t)

\* schedule_guild_poll at instant t: the job store afterwards.  An unknown
\* zone or a field out of range raises before the job store is touched, and
\* the exception is logged and swallowed.
schedule_guild_poll(js, g, config, t) ==
  IF ~ValidSchedule(config) THEN js
  ELSE LET trigger == CronTrigger(config.poll_hour, config.poll_minute, config.timezone)
           job_id == JobId(g)
           js1 == IF has_job(js, job_id) THEN remove_job(js, job_id) ELSE js
       IN add_job(js1, trigger, g, job_id, t)

\* unschedule_guild_poll that clears the job store
unschedule_guild_poll_all(js, g) == <<>>

unschedule_guild_poll(js, g) ==
  IF has_job(js, JobId(g)) THEN remove_job(js, JobId(g)) ELSE js

get_next_poll_time(js, g) ==
  IF has_job(js, JobId(g)) THEN get_job(js, JobId(g)).next_run_time ELSE None

RECURSIVE ScheduleAll(_, _, _, _, _)
\* schedule_all_guilds: every enabled config is scheduled
ScheduleAll(js, gs, hp, cf, t) ==
  IF gs = {} THEN js
  ELSE LET g == CHOOSE x \in gs : TRUE
           js1 == IF cf[g] # 0 /\ hp[cf[g]].enabled
                  THEN schedule_guild_poll(js, g, hp[cf[g]], t) ELSE js
       IN ScheduleAll(js1, gs \ {g}, hp, cf, t)

\* what an operation leaves in lastOp: its name and guild, and, when it
\* called schedule_guild_poll, the config it passed and whether the guild had
\* a trigger before the call
Op(name, g) ==
  [op |-> name, guild |-> g, scheduled |-> FALSE, had |-> FALSE,
   config |-> get_default_config]
SchedOp(name, g, config) ==
  [op |-> name, guild |-> g, scheduled |-> TRUE,
   had |-> has_job(jobs, JobId(g)), config |-> config]

HourInputs == {0 - 1, 23, 24}
MinuteInputs == {59, 60}
ZoneInputs == {"America/New_York", "Mars/Olympus"}

\* time_command without the range tests of hour and minute
time_command_unchecked(g, hour, minute) ==
  /\ nCmds < MaxCmds /\ nCmds' = nCmds + 1
  /\ LET c == get_guild_config(heap, configs, g)
         config == [c.heap[c.id] EXCEPT !.poll_hour = hour, !.poll_minute = minute]
     IN /\ heap' = [c.heap EXCEPT ![c.id] = config]
        /\ configs' = [c.configs EXCEPT ![g] = c.id]
        /\ IF config.enabled
           THEN /\ jobs' = schedule_guild_poll(jobs, g, config, now)
                /\ lastOp' = SchedOp("time_command", g, config)
           ELSE /\ UNCHANGED jobs
                /\ lastOp' = Op("time_command", g)
  /\ UNCHANGED <<platVars, gateVars, dbVars, botVars, now, nTicks>>

\* !poll time <hour> [minute]
time_command(g, hour, minute) ==
  /\ nCmds < MaxCmds /\ nCmds' = nCmds + 1
  /\ IF ~(0 <= hour /\ hour <= 23) \/ ~(0 <= minute /\ minute <= 59)
     THEN /\ UNCHANGED <<cfgVars, jobs>>
          /\ lastOp' = Op("time_rejected", g)
     ELSE LET c == get_guild_config(heap, configs, g)
              config == [c.heap[c.id] EXCEPT !.poll_hour = hour, !.poll_minute = minute]
          IN /\ heap' = [c.heap EXCEPT ![c.id] = config]
             /\ configs' = [c.configs EXCEPT ![g] = c.id]
             /\ IF config.enabled
                THEN /\ jobs' = schedule_guild_poll(jobs, g, config, now)
                     /\ lastOp' = SchedOp("time_command", g, config)
                ELSE /\ UNCHANGED jobs
                     /\ lastOp' = Op("time_command", g)
  /\ UNCHANGED <<platVars, gateVars, dbVars, botVars, now, nTicks>>

\* timezone_command without the pytz check of the name
timezone_command_unchecked(g, timezone_name) ==
  /\ nCmds < MaxCmds /\ nCmds' = nCmds + 1
  /\ LET c == get_guild_config(heap, configs, g)
         config == [c.heap[c.id] EXCEPT !.timezone = timezone_name]
     IN /\ heap' = [c.heap EXCEPT ![c.id] = config]
        /\ configs' = [c.configs EXCEPT ![g] = c.id]
        /\ IF config.enabled
           THEN /\ jobs' = schedule_guild_poll(jobs, g, config, now)
                /\ lastOp' = SchedOp("timezone_command", g, config)
           ELSE /\ UNCHANGED jobs
                /\ lastOp' = Op("timezone_command", g)
  /\ UNCHANGED <<platVars, gateVars, dbVars, botVars, now, nTicks>>

\* !poll timezone <name>; an unknown name is answered with "Invalid Timezone"
timezone_command(g, timezone_name) ==
  /\ nCmds < MaxCmds /\ nCmds' = nCmds + 1
  /\ IF timezone_name \notin KnownZones
     THEN /\ UNCHANGED <<cfgVars, jobs>>
          /\ lastOp' = Op("timezone_rejected", g)
     ELSE LET c == get_guild_config(heap, configs, g)
              config == [c.heap[c.id] EXCEPT !.timezone = timezone_name]
          IN /\ heap' = [c.heap EXCEPT ![c.id] = config]
             /\ configs' = [c.configs EXCEPT ![g] = c.id]
             /\ IF config.enabled
                THEN /\ jobs' = schedule_guild_poll(jobs, g, config, now)
                     /\ lastOp' = SchedOp("timezone_command", g, config)
                ELSE /\ UNCHANGED jobs
                     /\ lastOp' = Op("timezone_command", g)
  /\ UNCHANGED <<platVars, gateVars, dbVars, botVars, now, nTicks>>

\* !poll channel <#channel>, the bot having the permissions it checks
channel_command(g, channel) ==
  /\ nCmds < MaxCmds /\ nCmds' = nCmds + 1
  /\ LET c == get_guild_config(heap, configs, g)
         config == [c.heap[c.id] EXCEPT !.channel_id = channel]
     IN /\ heap' = [c.heap EXCEPT ![c.id] = config]
        /\ configs' = [c.configs EXCEPT ![g] = c.id]
  /\ lastOp' = Op("channel_command", g)
  /\ UNCHANGED <<platVars, gateVars, dbVars, botVars, jobs, now, nTicks>>

\* enable_command without the test of the channel
enable_command_unchecked(g) ==
  /\ nCmds < MaxCmds /\ nCmds' = nCmds + 1
  /\ LET c == get_guild_config(heap, configs, g)
         config == [c.heap[c.id] EXCEPT !.enabled = TRUE]
     IN /\ heap' = [c.heap EXCEPT ![c.id] = config]
        /\ configs' = [c.configs EXCEPT ![g] = c.id]
        /\ jobs' = schedule_guild_poll(jobs, g, config, now)
        /\ lastOp' = SchedOp("enable_command", g, config)
  /\ UNCHANGED <<platVars, gateVars, dbVars, botVars, now, nTicks>>

\* !poll enable
enable_command(g) ==
  /\ nCmds < MaxCmds /\ nCmds' = nCmds + 1
  /\ LET c == get_guild_config(heap, configs, g)
     IN IF c.heap[c.id].channel_id = NoChannel
        THEN /\ heap' = c.heap /\ configs' = c.configs
             /\ UNCHANGED jobs
             /\ lastOp' = Op("enable_command", g)
        ELSE LET config == [c.heap[c.id] EXCEPT !.enabled = TRUE]
             IN /\ heap' = [c.heap EXCEPT ![c.id] = config]
                /\ configs' = [c.configs EXCEPT ![g] = c.id]
                /\ jobs' = schedule_guild_poll(jobs, g, config, now)
                /\ lastOp' = SchedOp("enable_command", g, config)
  /\ UNCHANGED <<platVars, gateVars, dbVars, botVars, now, nTicks>>

\* a disable that also cancels the publishes of the guild that are under way
disable_command_cancelling(g) ==
  /\ nCmds < MaxCmds /\ nCmds' = nCmds + 1
  /\ LET c == get_guild_config(heap, configs, g)
         config == [c.heap[c.id] EXCEPT !.enabled = FALSE]
     IN /\ heap' = [c.heap EXCEPT ![c.id] = config]
        /\ configs' = [c.configs EXCEPT ![g] = c.id]
  /\ jobs' = unschedule_guild_poll(jobs, g)
  /\ pubs' = [p \in DOMAIN pubs |->
                IF pubs[p].guild = g /\ pubs[p].pc # "done"
                THEN [pubs[p] EXCEPT !.pc = "done", !.outcome = "cancelled"]
                ELSE pubs[p]]
  /\ lastOp' = [Op("disable_command", g) EXCEPT !.had = has_job(jobs, JobId(g))]
  /\ UNCHANGED <<platVars, gateVars, dbVars, active_polls, joined, now, nTicks>>

\* !poll disable
disable_command(g) ==
  /\ nCmds < MaxCmds /\ nCmds' = nCmds + 1
  /\ LET c == get_guild_config(heap, configs, g)
         config == [c.heap[c.id] EXCEPT !.enabled = FALSE]
     IN /\ heap' = [c.heap EXCEPT ![c.id] = config]
        /\ configs' = [c.configs EXCEPT ![g] = c.id]
  /\ jobs' = unschedule_guild_poll(jobs, g)
  /\ lastOp' = [Op("disable_command", g) EXCEPT !.had = has_job(jobs, JobId(g))]
  /\ UNCHANGED <<platVars, gateVars, dbVars, botVars, now, nTicks>>

\* Time passes, at most up to the next run time of a job.
Tick(d) ==
  /\ nTicks < MaxTicks /\ nTicks' = nTicks + 1
  /\ \A i \in DOMAIN jobs : now + d <= jobs[i].next_run_time
  /\ now' = now + d
  /\ lastOp' = Op("tick", "g1")
  /\ UNCHANGED <<platVars, gateVars, dbVars, cfgVars, botVars, jobs, nCmds>>

\* --------------------------------------------- a poll as publishing leaves it
\* poll_info that takes the options from the guild's config as it is when
\* the entry is built, not from the list the poll was rendered with
PollInfo_from_config(g, opts, test) ==
  LET c == get_guild_config(heap, configs, g)
  IN [guild_id |-> g, poll_options |-> Take(c.heap[c.id].poll_options, MaxOptions),
      emojis |-> Take(poll_emojis, 7), is_test |-> test]

\* poll_info of post_daily_poll for a config with `opts` as its option list
PollInfo(g, opts, test) ==
  [guild_id |-> g, poll_options |-> Take(opts, MaxOptions),
   emojis |-> Take(poll_emojis, 7), is_test |-> test]

OptionEmojis(info) == {info.emojis[i] : i \in 1..Len(info.poll_options)}

\* A config as the publisher and the admin commands leave it in the file.
FileConfig(on, channel, hour, minute, tz, opts, history) ==
  [enabled |-> on, channel_id |-> channel, poll_hour |-> hour, poll_minute |-> minute,
   timezone |-> tz, poll_options |-> opts, poll_history |-> history]

NoHandlers == [h \in HandlerIds |-> Idle]
NoPubs == <<>>
BootTime == MinutesPerDay + 479
StartTimes == {BootTime, MinutesPerDay + 1080}

\* The reaction specifications start right after one daily poll with n
\* options was published as message 1 of guild g1, and nothing else happened.
InitReact ==
  /\ \E n \in 1..MaxEmoji :
       LET opts == [i \in 1..n |-> i]
           t == BootTime
           config == FileConfig(TRUE, "c1", 20, 0, "Europe/Sofia", opts, <<1>>)
       IN /\ active_polls = (1 :> PollInfo("g1", opts, FALSE))
          /\ live = {<<1, Bot, poll_emojis[i]>> : i \in 1..n}
          /\ cache = {<<1, Bot, poll_emojis[i]>> : i \in 1..n}
          /\ heap = <<config>>
          /\ jobs = schedule_guild_poll(<<>>, "g1", config, t)
          /\ now = t
  /\ configs = [g \in Guilds |-> IF g = "g1" THEN 1 ELSE 0]
  /\ messages = {1} /\ nextMsg = 2
  /\ rendered = (1 :> <<>>)
  /\ events = <<>> /\ nEvents = 0
  /\ handlers = NoHandlers
  /\ lost = [u \in Users |-> "none"]
  /\ polls = <<[message_id |-> 1, guild_id |-> "g1", is_test |-> FALSE, created_at |-> 1]>>
  /\ votes = <<>>
  /\ servers = {"g1"} /\ clock = 1
  /\ nTicks = 0 /\ nCmds = 0
  /\ pubs = NoPubs /\ joined = Guilds
  /\ lastOp = Op("init", "g1")

\* The configs a guild may have in the file when the process starts: none,
\* the defaults, an enabled daily poll, and an enabled config whose zone name
\* was edited into one that does not resolve.
StartConfigs ==
  {get_default_config,
   FileConfig(TRUE, "c1", 20, 0, "Europe/Sofia", DefaultOptions, <<>>),
   FileConfig(TRUE, "c1", 8, 0, "Mars/Olympus", DefaultOptions, <<>>)}

\* The scheduler specification starts when start() has scheduled the enabled
\* guilds of the file and no poll was published yet.
InitSched ==
  /\ \E c1 \in StartConfigs, c2 \in StartConfigs, known \in BOOLEAN, t \in StartTimes :
       /\ heap = IF known THEN <<c1, c2>> ELSE <<c1>>
       /\ configs = [g \in Guilds |-> IF g = "g1" THEN 1 ELSE IF known THEN 2 ELSE 0]
       /\ now = t
       /\ jobs = ScheduleAll(<<>>, Guilds, heap, configs, t)
       /\ servers = {g \in Guilds : configs[g] # 0}
  /\ messages = {} /\ live = {} /\ cache = {} /\ nextMsg = 1
  /\ rendered = <<>> /\ active_polls = <<>>
  /\ events = <<>> /\ nEvents = 0
  /\ handlers = NoHandlers
  /\ lost = [u \in Users |-> "none"]
  /\ polls = <<>> /\ votes = <<>> /\ clock = 0
  /\ nTicks = 0 /\ nCmds = 0
  /\ pubs = NoPubs /\ joined = Guilds
  /\ lastOp = Op("init", "g1")

TickSteps == {1, 600}

AdminStep ==
  \E g \in joined :
    \/ \E h \in HourInputs, m \in MinuteInputs : time_command(g, h, m)
    \/ \E z \in ZoneInputs : timezone_command(g, z)
    \/ \E c \in Channels : channel_command(g, c)
    \/ enable_command(g)
    \/ disable_command(g)

\* Admin commands and the passing of time.
NextSched == AdminStep \/ (\E d \in TickSteps : Tick(d))
SpecSched == InitSched /\ [][NextSched]_vars

UserStep ==
  \E u \in Users, m \in messages, e \in ReactEmojis :
    UserAddReaction(u, m, e) \/ UserRemoveReaction(u, m, e)

HandlerStep ==
  \E h \in HandlerIds :
    \/ on_reaction_add(h)
    \/ on_reaction_remove(h)
    \/ UsersAnswered(h)
    \/ update_poll_results(h)
    \/ EditDone(h)

\* Reaction events and handlers interleaving at the awaits.
NextReact == UserStep \/ HandlerStep
SpecReact == InitReact /\ [][NextReact]_vars

\* Each reaction event handled to completion before the next reaction change.
NextReactSeq == (Quiet /\ UserStep) \/ HandlerStep
SpecReactSeq == InitReact /\ [][NextReactSeq]_vars

\* As SpecReactSeq; the event loop runs every handler that can take a step.
SpecReactSeqFair == SpecReactSeq /\ WF_vars(HandlerStep)

\* The palette emojis users react with in SpecReactPalette.
MaxPaletteEmoji == 3
PaletteReacts == 1..MaxPaletteEmoji

\* A daily poll with n >= 2 options was just published as message 1 of g1.
InitReactPalette ==
  /\ \E n \in 2..MaxPaletteEmoji :
       LET opts == [i \in 1..n |-> i]
           config == FileConfig(TRUE, "c1", 20, 0, "Europe/Sofia", opts, <<1>>)
       IN /\ active_polls = (1 :> PollInfo("g1", opts, FALSE))
          /\ live = {<<1, Bot, poll_emojis[i]>> : i \in 1..n}
          /\ cache = {<<1, Bot, poll_emojis[i]>> : i \in 1..n}
          /\ heap = <<config>>
          /\ jobs = schedule_guild_poll(<<>>, "g1", config, BootTime)
  /\ now = BootTime
  /\ configs = [g \in Guilds |-> IF g = "g1" THEN 1 ELSE 0]
  /\ messages = {1} /\ nextMsg = 2
  /\ rendered = (1 :> <<>>)
  /\ events = <<>> /\ nEvents = 0
  /\ handlers = NoHandlers
  /\ lost = [u \in Users |-> "none"]
  /\ polls = <<[message_id |-> 1, guild_id |-> "g1", is_test |-> FALSE, created_at |-> 1]>>
  /\ votes = <<>>
  /\ servers = {"g1"} /\ clock = 1
  /\ nTicks = 0 /\ nCmds = 0
  /\ pubs = NoPubs /\ joined = Guilds
  /\ lastOp = Op("init", "g1")

\* Users add and remove reactions with palette emojis, in any order; every
\* event is reconciled before the next one arrives.
NextReactPalette ==
  \/ /\ Quiet
     /\ \E u \in Users, e \in PaletteReacts :
          UserAddReaction(u, 1, e) \/ UserRemoveReaction(u, 1, e)
  \/ HandlerStep
SpecReactPalette == InitReactPalette /\ [][NextReactPalette]_vars

\* As SpecReactSeq, with events that may be lost before delivery.
NextReactLossy == (Quiet /\ UserStep) \/ HandlerStep \/ LoseEvent
SpecReactLossy == InitReact /\ [][NextReactLossy]_vars

\* The wide reaction specification starts after a restart: poll 1 of guild g1
\* was published and user 1 voted on it before the process restarted, so its
\* row and vote are stored and active_polls, rebuilt empty, does not hold it;
\* poll 2 was published after the restart and nobody has voted on it.
InitReactWide ==
  /\ \E n \in 1..MaxEmoji :
       LET opts == [i \in 1..n |-> i]
           config == FileConfig(TRUE, "c1", 20, 0, "Europe/Sofia", opts, <<1, 2>>)
           own == {<<m, Bot, poll_emojis[i]>> : m \in {1, 2}, i \in 1..n}
       IN /\ active_polls = (2 :> PollInfo("g1", opts, FALSE))
          /\ live = own \cup {<<1, 1, poll_emojis[1]>>}
          /\ cache = own \cup {<<1, 1, poll_emojis[1]>>}
          /\ heap = <<config>>
          /\ jobs = schedule_guild_poll(<<>>, "g1", config, BootTime)
          /\ rendered = (1 :> (poll_emojis[1] :> <<display_name(1)>>)) @@ (2 :> <<>>)
  /\ now = BootTime
  /\ configs = [g \in Guilds |-> IF g = "g1" THEN 1 ELSE 0]
  /\ messages = {1, 2} /\ nextMsg = 3
  /\ events = <<>> /\ nEvents = 0
  /\ handlers = NoHandlers
  /\ lost = [u \in Users |-> "none"]
  /\ polls = [i \in 1..2 |-> [message_id |-> i, guild_id |-> "g1",
                               is_test |-> FALSE, created_at |-> i]]
  /\ votes = <<[message_id |-> 1, user_id |-> 1, display_name |-> display_name(1),
                emoji |-> poll_emojis[1]]>>
  /\ servers = {"g1"} /\ clock = 2
  /\ nTicks = 0 /\ nCmds = 0
  /\ pubs = NoPubs /\ joined = Guilds
  /\ lastOp = Op("init", "g1")

\* a bot account, this bot included, adds or removes a reaction
BotStep ==
  \E m \in messages, e \in ReactEmojis :
    UserAddReaction(Bot, m, e) \/ UserRemoveReaction(Bot, m, e)

\* Reactions of users and of bots on a tracked and an untracked poll message.
NextReactWide == UserStep \/ BotStep \/ HandlerStep
SpecReactWide == InitReactWide /\ [][NextReactWide]_vars

\* -------------------------------------------------------------- publisher
MaxPubs == 2        \* publish tasks started in one behaviour
MaxFaults == 1      \* publish tasks that meet a platform error
MaxPubOptions == 2  \* options of the polls the publisher specification posts

\* create_poll with the cleanup query in ascending order of created_at
create_poll_keep_oldest(ps, vs, g, m, test, t) ==
  LET ps1 == Append(ps, [message_id |-> m, guild_id |-> g, is_test |-> test,
                         created_at |-> t])
      mine == {i \in DOMAIN ps1 : ps1[i].guild_id = g}
      old == {i \in mine :
                Cardinality({j \in mine : ps1[j].created_at < ps1[i].created_at})
                  >= KeepPolls}
      dead == {ps1[i].message_id : i \in old}
  IN [polls |-> SelectSeq(ps1, LAMBDA r : r.message_id \notin dead),
      votes |-> SelectSeq(vs, LAMBDA v : v.message_id \notin dead)]

\* create_poll whose cleanup query is not filtered by the guild's server row
create_poll_all_guilds(ps, vs, g, m, test, t) ==
  LET ps1 == Append(ps, [message_id |-> m, guild_id |-> g, is_test |-> test,
                         created_at |-> t])
      old == {i \in DOMAIN ps1 :
                Cardinality({j \in DOMAIN ps1 : ps1[j].created_at > ps1[i].created_at})
                  >= KeepPolls}
      dead == {ps1[i].message_id : i \in old}
  IN [polls |-> SelectSeq(ps1, LAMBDA r : r.message_id \notin dead),
      votes |-> SelectSeq(vs, LAMBDA v : v.message_id \notin dead)]

\* create_poll when the guild has its server row: the poll row is inserted,
\* then every row of the guild beyond the KeepPolls newest by created_at is
\* deleted, and the votes of a deleted row go with it (delete-orphan).
\* created_at is the database clock, which never gives two rows the same time.
create_poll(ps, vs, g, m, test, t) ==
  LET ps1 == Append(ps, [message_id |-> m, guild_id |-> g, is_test |-> test,
                         created_at |-> t])
      mine == {i \in DOMAIN ps1 : ps1[i].guild_id = g}
      old == {i \in mine :
                Cardinality({j \in mine : ps1[j].created_at > ps1[i].created_at})
                  >= KeepPolls}
      dead == {ps1[i].message_id : i \in old}
  IN [polls |-> SelectSeq(ps1, LAMBDA r : r.message_id \notin dead),
      votes |-> SelectSeq(vs, LAMBDA v : v.message_id \notin dead)]

\* A publish task: post_daily_poll or post_test_poll started by the trigger
\* ("job") or by a command ("command").  cfg is the config dict the task
\* holds, seen the content of the dict when the task started, fault whether
\* a platform call of the task failed with an HTTP error.
NewTask(kind, origin, g, cfg, seen, pc) ==
  [kind |-> kind, origin |-> origin, guild |-> g, cfg |-> cfg, pc |-> pc,
   oldest |-> 0, msg |-> 0, idx |-> 0, seen |-> seen, fault |-> FALSE,
   outcome |-> "running", reply |-> "none"]

Faults == Cardinality({i \in DOMAIN pubs : pubs[i].fault})
\* the outcomes of an awaited platform call: it succeeds, or it raises
\* HTTPException (Forbidden is one); in a guild the bot has left it raises
CallResults == {"ok", "http_error"}
MayFail(p, r) ==
  IF pubs[p].guild \in joined
  THEN r = "ok" \/ (Faults < MaxFaults /\ ~pubs[p].fault)
  ELSE r = "http_error"

\* where a task goes when the publishing coroutine has returned or raised:
\* the commands still send their reply, the trigger's task is over
AfterPublish(task) == IF task.origin = "job" THEN "done" ELSE "confirm"

PubOp(name, task) ==
  [op |-> name, guild |-> task.guild, scheduled |-> FALSE, had |-> FALSE,
   config |-> task.seen]

\* post_daily_poll without its tests of the enabled flag and of the channel
StartDaily_unguarded(g, origin) ==
  LET c == get_guild_config(heap, configs, g)
      config == c.heap[c.id]
      task == NewTask("daily", origin, g, c.id, config, "send")
  IN /\ Len(pubs) < MaxPubs
     /\ IF g \notin joined
        THEN UNCHANGED cfgVars
        ELSE heap' = c.heap /\ configs' = c.configs
     /\ IF g \notin joined
        THEN pubs' = Append(pubs, [task EXCEPT !.pc = AfterPublish(task),
                                               !.outcome = "skipped"])
        ELSE IF Len(config.poll_history) >= KeepHistory
        THEN pubs' = Append(pubs, [task EXCEPT !.pc = "fetch",
                                               !.oldest = config.poll_history[1]])
        ELSE pubs' = Append(pubs, task)
     /\ lastOp' = Op("await", g)

\* post_daily_poll from its entry to its first await
StartDaily(g, origin) ==
  LET c == get_guild_config(heap, configs, g)
      config == c.heap[c.id]
      task == NewTask("daily", origin, g, c.id, config, "send")
  IN /\ Len(pubs) < MaxPubs
     /\ IF g \notin joined
        THEN UNCHANGED cfgVars
        ELSE heap' = c.heap /\ configs' = c.configs
     /\ IF g \notin joined \/ ~config.enabled \/ config.channel_id = NoChannel
        THEN pubs' = Append(pubs, [task EXCEPT !.pc = AfterPublish(task),
                                               !.outcome = "skipped"])
        ELSE IF Len(config.poll_history) >= KeepHistory
        THEN pubs' = Append(pubs, [task EXCEPT !.pc = "fetch",
                                               !.oldest = config.poll_history[1]])
        ELSE pubs' = Append(pubs, task)
     /\ lastOp' = Op("await", g)

\* a trigger that is dropped from the job store once it has fired
Fire_one_shot(g) ==
  /\ has_job(jobs, JobId(g))
  /\ get_job(jobs, JobId(g)).next_run_time = now
  /\ StartDaily(g, "job")
  /\ jobs' = remove_job(jobs, JobId(g))
  /\ UNCHANGED <<platVars, gateVars, dbVars, active_polls, joined, now, nTicks, nCmds>>

\* the job of guild g has an instance that has not returned: the executor
\* runs at most max_instances = 1 (the default) instances of a job
Running(g) ==
  \E p \in DOMAIN pubs :
    pubs[p].origin = "job" /\ pubs[p].guild = g /\ pubs[p].pc # "done"

\* the trigger of guild g fires: APScheduler runs post_daily_poll(g) and
\* computes the job's next run time
Fire(g) ==
  /\ has_job(jobs, JobId(g))
  /\ get_job(jobs, JobId(g)).next_run_time = now
  /\ IF Running(g)
     THEN /\ UNCHANGED <<cfgVars, pubs>>
          /\ lastOp' = Op("max_instances", g)
     ELSE StartDaily(g, "job")
  /\ jobs' = [jobs EXCEPT ![JobIndex(jobs, JobId(g))].next_run_time =
                get_next_fire_time(jobs[JobIndex(jobs, JobId(g))].trigger, now)]
  /\ UNCHANGED <<platVars, gateVars, dbVars, active_polls, joined, now, nTicks, nCmds>>

\* post_test_poll from its entry to its first await
StartTest(g, origin) ==
  LET c == get_guild_config(heap, configs, g)
      task == NewTask("test", origin, g, c.id, c.heap[c.id], "send")
  IN /\ Len(pubs) < MaxPubs
     /\ heap' = c.heap /\ configs' = c.configs
     /\ pubs' = Append(pubs, task)
     /\ lastOp' = Op("await", g)

\* !poll manual now | daily
manual_poll_command(g, action) ==
  /\ IF action = "now" THEN StartTest(g, "command") ELSE StartDaily(g, "command")
  /\ g \in joined
  /\ UNCHANGED <<platVars, gateVars, dbVars, schedVars, active_polls, joined>>

\* !poll test
test_command(g) ==
  /\ StartTest(g, "command")
  /\ g \in joined
  /\ UNCHANGED <<platVars, gateVars, dbVars, schedVars, active_polls, joined>>

\* The platform deletes message m: its reactions go with it.
DeleteMessage(m) ==
  /\ messages' = messages \ {m}
  /\ live' = {x \in live : x[1] # m}
  /\ cache' = {x \in cache : x[1] # m}
  /\ rendered' = [k \in DOMAIN rendered \ {m} |-> rendered[k]]

\* poll_history.pop(0) and on to `await channel.send`; pop on an empty list
\* raises IndexError, which ends the task in the outer except
PopThenSend(p, task) ==
  LET history == heap[task.cfg].poll_history
  IN IF history = <<>>
     THEN /\ pubs' = [pubs EXCEPT ![p] = [task EXCEPT !.pc = AfterPublish(task),
                                                    !.outcome = "failed"]]
          /\ UNCHANGED heap
     ELSE /\ pubs' = [pubs EXCEPT ![p] = [task EXCEPT !.pc = "send"]]
          /\ heap' = [heap EXCEPT ![task.cfg].poll_history = Tail(history)]

\* `await channel.fetch_message(oldest_poll_id)` returns or raises
FetchDone(p, r) ==
  LET task == pubs[p]
  IN /\ task.pc = "fetch" /\ MayFail(p, r)
     /\ IF r = "ok" /\ task.oldest \in messages
        THEN /\ pubs' = [pubs EXCEPT ![p].pc = "delete"]
             /\ UNCHANGED heap
        ELSE PopThenSend(p, [task EXCEPT !.fault = (r # "ok")])
     /\ lastOp' = Op("await", task.guild)
     /\ UNCHANGED <<platVars, gateVars, dbVars, configs, schedVars, active_polls, joined>>

\* a delete whose failure ends the publish
DeleteDone_aborting(p, r) ==
  LET task == pubs[p]
  IN /\ task.pc = "delete" /\ MayFail(p, r)
     /\ IF r = "ok" /\ task.oldest \in messages
        THEN DeleteMessage(task.oldest) /\ PopThenSend(p, task)
        ELSE /\ UNCHANGED <<messages, live, cache, rendered, heap>>
             /\ pubs' = [pubs EXCEPT ![p] = [task EXCEPT !.pc = AfterPublish(task),
                                                        !.fault = TRUE,
                                                        !.outcome = "failed"]]
     /\ lastOp' = Op("await", task.guild)
     /\ UNCHANGED <<nextMsg, events, nEvents, handlers, lost, dbVars, configs,
                    schedVars, active_polls, joined>>

\* `await oldest_message.delete()` returns or raises
DeleteDone(p, r) ==
  LET task == pubs[p]
  IN /\ task.pc = "delete" /\ MayFail(p, r)
     /\ IF r = "ok" /\ task.oldest \in messages
        THEN DeleteMessage(task.oldest)
        ELSE UNCHANGED <<messages, live, cache, rendered>>
     /\ PopThenSend(p, [task EXCEPT !.fault = (r # "ok")])
     /\ lastOp' = Op("await", task.guild)
     /\ UNCHANGED <<nextMsg, events, nEvents, handlers, lost, dbVars, configs,
                    schedVars, active_polls, joined>>

\* a send whose denial is noticed only after the history entry was written
SendDone_history_first(p, r) ==
  LET task == pubs[p]
  IN /\ task.pc = "send" /\ MayFail(p, r)
     /\ IF r = "ok"
        THEN /\ messages' = messages \cup {nextMsg}
             /\ nextMsg' = nextMsg + 1
             /\ rendered' = rendered @@ (nextMsg :> <<>>)
             /\ pubs' = [pubs EXCEPT ![p] = [task EXCEPT !.pc = "react",
                                                        !.msg = nextMsg, !.idx = 1]]
             /\ UNCHANGED heap
        ELSE /\ UNCHANGED <<messages, nextMsg, rendered>>
             /\ heap' = [heap EXCEPT ![task.cfg].poll_history = Append(@, nextMsg)]
             /\ pubs' = [pubs EXCEPT ![p] = [task EXCEPT !.pc = AfterPublish(task),
                                                        !.fault = TRUE,
                                                        !.outcome = "failed"]]
     /\ lastOp' = Op("await", task.guild)
     /\ UNCHANGED <<live, gateVars, dbVars, configs, schedVars, active_polls, joined>>

\* `await channel.send(embed=embed)` returns the new message or raises
SendDone(p, r) ==
  LET task == pubs[p]
  IN /\ task.pc = "send" /\ MayFail(p, r)
     /\ IF r = "ok"
        THEN /\ messages' = messages \cup {nextMsg}
             /\ nextMsg' = nextMsg + 1
             /\ rendered' = rendered @@ (nextMsg :> <<>>)
             /\ pubs' = [pubs EXCEPT ![p] = [task EXCEPT !.pc = "react",
                                                        !.msg = nextMsg, !.idx = 1]]
        ELSE /\ UNCHANGED <<messages, nextMsg, rendered>>
             /\ pubs' = [pubs EXCEPT ![p] = [task EXCEPT !.pc = AfterPublish(task),
                                                        !.fault = TRUE,
                                                        !.outcome = "failed"]]
     /\ lastOp' = Op("await", task.guild)
     /\ UNCHANGED <<live, gateVars, dbVars, cfgVars, schedVars, active_polls, joined>>

\* the end of the coroutine with the history entry written for test polls too
Finish_test_in_history(p, task) ==
  LET g == task.guild
      info == PollInfo(g, task.seen.poll_options, task.kind = "test")
      made == create_poll(polls, votes, g, task.msg, task.kind = "test", clock + 1)
      name == IF task.kind = "test" THEN "post_test_poll" ELSE "post_daily_poll"
  IN /\ heap' = [heap EXCEPT ![task.cfg].poll_history = Append(@, task.msg)]
     /\ configs' = [configs EXCEPT ![g] = task.cfg]
     /\ IF g \in servers
        THEN /\ polls' = made.polls /\ votes' = made.votes /\ clock' = clock + 1
             /\ active_polls' = (task.msg :> info) @@ active_polls
             /\ pubs' = [pubs EXCEPT ![p] = [task EXCEPT !.pc = AfterPublish(task),
                                                        !.outcome = "ok"]]
             /\ lastOp' = PubOp(IF task.fault THEN name \o "_faulted" ELSE name, task)
        ELSE /\ UNCHANGED <<polls, votes, clock, active_polls>>
             /\ pubs' = [pubs EXCEPT ![p] = [task EXCEPT !.pc = AfterPublish(task),
                                                        !.outcome = "failed"]]
             /\ lastOp' = PubOp(name \o "_failed", task)
     /\ UNCHANGED servers

\* The rest of the coroutine after the last add_reaction, no await in it:
\* the history entry, the poll row and the tracking entry.
Finish(p, task) ==
  LET g == task.guild
      info == PollInfo(g, task.seen.poll_options, task.kind = "test")
      made == create_poll(polls, votes, g, task.msg, task.kind = "test", clock + 1)
      name == IF task.kind = "test" THEN "post_test_poll" ELSE "post_daily_poll"
  IN /\ IF task.kind = "daily"
        THEN /\ heap' = [heap EXCEPT ![task.cfg].poll_history = Append(@, task.msg)]
             /\ configs' = [configs EXCEPT ![g] = task.cfg]
        ELSE UNCHANGED cfgVars
     /\ IF g \in servers
        THEN /\ polls' = made.polls /\ votes' = made.votes /\ clock' = clock + 1
             /\ active_polls' = (task.msg :> info) @@ active_polls
             /\ pubs' = [pubs EXCEPT ![p] = [task EXCEPT !.pc = AfterPublish(task),
                                                        !.outcome = "ok"]]
             /\ lastOp' = PubOp(IF task.fault THEN name \o "_faulted" ELSE name, task)
        ELSE /\ UNCHANGED <<polls, votes, clock, active_polls>>
             /\ pubs' = [pubs EXCEPT ![p] = [task EXCEPT !.pc = AfterPublish(task),
                                                        !.outcome = "failed"]]
             /\ lastOp' = PubOp(name \o "_failed", task)
     /\ UNCHANGED servers

\* an add_reaction whose failure ends the publish
ReactDone_aborting(p, r) ==
  LET task == [pubs[p] EXCEPT !.fault = @ \/ (r # "ok")]
      n == Len(Take(task.seen.poll_options, MaxOptions))
  IN /\ pubs[p].pc = "react" /\ MayFail(p, r)
     /\ IF r = "ok"
        THEN /\ live' = live \cup {<<task.msg, Bot, poll_emojis[task.idx]>>}
             /\ cache' = cache \cup {<<task.msg, Bot, poll_emojis[task.idx]>>}
        ELSE UNCHANGED <<live, cache>>
     /\ IF r # "ok"
        THEN /\ pubs' = [pubs EXCEPT ![p] = [task EXCEPT !.pc = AfterPublish(task),
                                                        !.outcome = "failed"]]
             /\ lastOp' = Op("await", task.guild)
             /\ UNCHANGED <<dbVars, cfgVars, active_polls>>
        ELSE IF task.idx < n
        THEN /\ pubs' = [pubs EXCEPT ![p] = [task EXCEPT !.idx = @ + 1]]
             /\ lastOp' = Op("await", task.guild)
             /\ UNCHANGED <<dbVars, cfgVars, active_polls>>
        ELSE Finish(p, task)
     /\ UNCHANGED <<messages, rendered, nextMsg, events, nEvents, handlers, lost,
                    schedVars, joined>>

\* `await message.add_reaction(self.poll_emojis[i])` returns or raises
ReactDone(p, r) ==
  LET task == [pubs[p] EXCEPT !.fault = @ \/ (r # "ok")]
      n == Len(Take(task.seen.poll_options, MaxOptions))
  IN /\ pubs[p].pc = "react" /\ MayFail(p, r)
     /\ IF r = "ok"
        THEN /\ live' = live \cup {<<task.msg, Bot, poll_emojis[task.idx]>>}
             /\ cache' = cache \cup {<<task.msg, Bot, poll_emojis[task.idx]>>}
        ELSE UNCHANGED <<live, cache>>
     /\ IF task.idx < n
        THEN /\ pubs' = [pubs EXCEPT ![p] = [task EXCEPT !.idx = @ + 1]]
             /\ lastOp' = Op("await", task.guild)
             /\ UNCHANGED <<dbVars, cfgVars, active_polls>>
        ELSE Finish(p, task)
     /\ UNCHANGED <<messages, rendered, nextMsg, events, nEvents, handlers, lost,
                    schedVars, joined>>

\* what the command tells the requester: post_test_poll re-raises and the
\* test and `manual now` commands answer from their except branch;
\* post_daily_poll returns normally whatever happened, so `manual daily`
\* never reaches its except branch
Reply(task) ==
  IF task.kind = "test" /\ task.outcome # "ok" THEN "error" ELSE "published"

\* `await ctx.send(...)`: the command's reply is posted in the channel
ConfirmDone(p) ==
  /\ pubs[p].pc = "confirm"
  /\ IF pubs[p].guild \in joined
     THEN messages' = messages \cup {nextMsg} /\ nextMsg' = nextMsg + 1
     ELSE UNCHANGED <<messages, nextMsg>>
  /\ pubs' = [pubs EXCEPT ![p].pc = "done", ![p].reply = Reply(pubs[p])]
  /\ lastOp' = Op("await", pubs[p].guild)
  /\ UNCHANGED <<live, rendered, gateVars, dbVars, cfgVars, schedVars, active_polls,
                 joined>>

\* the bot is removed from guild g: remove_guild drops the guild's config
on_guild_remove(g) ==
  /\ g \in joined
  /\ joined' = joined \ {g}
  /\ configs' = [configs EXCEPT ![g] = 0]
  /\ lastOp' = Op("on_guild_remove", g)
  /\ UNCHANGED <<platVars, gateVars, dbVars, heap, schedVars, active_polls, pubs>>

\* The publisher specification starts when k daily polls of guild g1 have
\* been published one after the other and the next is due; guild g2 has its
\* channel set and its daily poll, due the next morning, enabled or disabled.  Only the guilds in the config
\* file when the process started have a server row: g1 may have been set up
\* later, and then no poll of it was stored.
PubStart == MinutesPerDay + 1080
InitPub ==
  /\ configs = [g \in Guilds |-> IF g = "g1" THEN 1 ELSE 2]
  /\ \E k \in 0..KeepHistory, n \in 1..MaxPubOptions, on2 \in BOOLEAN :
       LET opts == [i \in 1..n |-> i]
           config == FileConfig(TRUE, "c1", 20, 0, "Europe/Sofia", opts,
                                [i \in 1..k |-> i])
           config2 == FileConfig(on2, "c1", 8, 0, "UTC", opts, <<>>)
           js1 == schedule_guild_poll(<<>>, "g1", config, BootTime)
       IN /\ heap = <<config, config2>>
          /\ messages = 1..k /\ nextMsg = k + 1
          /\ live = {<<m, Bot, poll_emojis[i]>> : m \in 1..k, i \in 1..n}
          /\ cache = {<<m, Bot, poll_emojis[i]>> : m \in 1..k, i \in 1..n}
          /\ rendered = [m \in 1..k |-> <<>>]
          /\ active_polls = [m \in 1..k |-> PollInfo("g1", opts, FALSE)]
          /\ polls = [i \in 1..k |-> [message_id |-> i, guild_id |-> "g1",
                                       is_test |-> FALSE, created_at |-> i]]
          /\ clock = k
          /\ jobs = IF on2
                    THEN schedule_guild_poll(js1, "g2", config2, PubStart - 1)
                    ELSE js1
          /\ servers \in (IF k = 0 THEN {Guilds, {"g2"}} ELSE {Guilds})
  /\ now = PubStart
  /\ events = <<>> /\ nEvents = 0
  /\ handlers = NoHandlers
  /\ lost = [u \in Users |-> "none"]
  /\ votes = <<>>
  /\ nTicks = 0 /\ nCmds = 0
  /\ pubs = NoPubs /\ joined = Guilds
  /\ lastOp = Op("init", "g1")

ManualActions == {"now", "daily"}

PublishStep ==
  \E p \in DOMAIN pubs :
    \/ \E r \in CallResults : FetchDone(p, r)
    \/ \E r \in CallResults : DeleteDone(p, r)
    \/ \E r \in CallResults : SendDone(p, r)
    \/ \E r \in CallResults : ReactDone(p, r)
    \/ ConfirmDone(p)

\* Triggers firing, publish commands, and the publish tasks interleaving at
\* their awaits.
NextPub ==
  \/ \E g \in Guilds : Fire(g)
  \/ \E g \in Guilds, a \in ManualActions : manual_poll_command(g, a)
  \/ \E g \in Guilds : test_command(g)
  \/ \E g \in Guilds : on_guild_remove(g)
  \/ PublishStep
SpecPub == InitPub /\ [][NextPub]_vars

\* the bot is added to guild g: initialize_guild gives the guild the default
\* config unless it has one, and the welcome message is sent to the first
\* channel that lets the bot write, if there is one
MaxConfigs == 3     \* config dicts created in one behaviour
on_guild_join(g, welcomed) ==
  LET c == get_guild_config(heap, configs, g)
  IN /\ g \notin joined /\ Len(heap) < MaxConfigs
     /\ joined' = joined \cup {g}
     /\ heap' = c.heap /\ configs' = c.configs
     /\ IF welcomed
        THEN messages' = messages \cup {nextMsg} /\ nextMsg' = nextMsg + 1
        ELSE UNCHANGED <<messages, nextMsg>>
     /\ lastOp' = Op("on_guild_join", g)
     /\ UNCHANGED <<live, rendered, gateVars, dbVars, schedVars, active_polls, pubs>>

\* The publishes of guild g1 alone, which may remove the bot and add it again.
NextPubJoin ==
  \/ Fire("g1")
  \/ \E a \in ManualActions : manual_poll_command("g1", a)
  \/ test_command("g1")
  \/ on_guild_remove("g1")
  \/ \E welcomed \in BOOLEAN : on_guild_join("g1", welcomed)
  \/ PublishStep
SpecPubJoin == InitPub /\ [][NextPubJoin]_vars

\* Admin commands, the passing of time, and guilds that remove the bot.
NextSchedRemove ==
  \/ NextSched
  \/ \E g \in Guilds : on_guild_remove(g)
SpecSchedRemove == InitSched /\ [][NextSchedRemove]_vars

\* Scheduled publishes, `!poll disable` arriving while they run, and the days
\* passing.  The event loop resumes a task whose awaited call has finished.
NextPubDisable ==
  \/ \E g \in Guilds : Fire(g)
  \/ \E g \in Guilds : disable_command(g)
  \/ Tick(MinutesPerDay)
  \/ PublishStep
SpecPubDisable == InitPub /\ [][NextPubDisable]_vars /\ WF_vars(PublishStep)

\* One publish at a time: a task starts only when every earlier one is over.
PubQuiet == \A p \in DOMAIN pubs : pubs[p].pc = "done"
NextPubSeq ==
  \/ /\ PubQuiet
     /\ \/ \E g \in Guilds : Fire(g)
        \/ \E g \in Guilds, a \in ManualActions : manual_poll_command(g, a)
        \/ \E g \in Guilds : test_command(g)
  \/ PublishStep
SpecPubSeq == InitPub /\ [][NextPubSeq]_vars

\* a start that rebuilds active_polls from the stored poll rows
on_ready_rebuilding ==
  /\ active_polls' = [m \in {polls[i].message_id : i \in DOMAIN polls} |->
                        PollInfo("g1", heap[configs["g1"]].poll_options, FALSE)]
  /\ handlers' = NoHandlers /\ events' = <<>> /\ cache' = {}
  /\ jobs' = ScheduleAll(<<>>, Guilds, heap, configs, now)
  /\ lastOp' = Op("on_ready", "g1")
  /\ UNCHANGED <<platVars, nEvents, lost, dbVars, cfgVars, now, nTicks, nCmds,
                 pubs, joined>>

\* The process is stopped and started again: the bot object is new, so
\* active_polls starts empty and no handler is running; the library's message
\* cache is empty; start() schedules the enabled guilds of the config file.
on_ready ==
  /\ active_polls' = <<>>
  /\ handlers' = NoHandlers /\ events' = <<>> /\ cache' = {}
  /\ jobs' = ScheduleAll(<<>>, Guilds, heap, configs, now)
  /\ lastOp' = Op("on_ready", "g1")
  /\ UNCHANGED <<platVars, nEvents, lost, dbVars, cfgVars, now, nTicks, nCmds,
                 pubs, joined>>

\* Reactions, one test publish and restarts, one at a time: a reaction
\* change, the publish or a restart begins when the handlers and the publish
\* before it are over; the restarts taken are those that have something to
\* forget.
NextRestart ==
  \/ /\ Quiet /\ PubQuiet
     /\ \/ UserStep
        \/ active_polls # <<>> /\ on_ready
        \/ pubs = NoPubs /\ test_command("g1")
  \/ HandlerStep
  \/ PublishStep
SpecRestart == InitReact /\ [][NextRestart]_vars

\* The two-guild specification starts when each guild has its daily poll
\* enabled and one poll published, message 1 in g1 and message 2 in g2, and
\* user 1 has voted on both.
InitTwoGuilds ==
  /\ heap = <<FileConfig(TRUE, "c1", 20, 0, "Europe/Sofia", <<1>>, <<1>>),
              FileConfig(TRUE, "c1", 8, 0, "UTC", <<1>>, <<2>>)>>
  /\ configs = [g \in Guilds |-> IF g = "g1" THEN 1 ELSE 2]
  /\ jobs = ScheduleAll(<<>>, Guilds, heap, configs, BootTime)
  /\ now = BootTime
  /\ messages = {1, 2} /\ nextMsg = 3
  /\ live = {<<m, a, poll_emojis[1]>> : m \in {1, 2}, a \in {Bot, 1}}
  /\ cache = {<<m, a, poll_emojis[1]>> : m \in {1, 2}, a \in {Bot, 1}}
  /\ rendered = [m \in {1, 2} |-> (poll_emojis[1] :> <<display_name(1)>>)]
  /\ active_polls = [m \in {1, 2} |->
                       PollInfo(IF m = 1 THEN "g1" ELSE "g2", <<1>>, FALSE)]
  /\ polls = [i \in 1..2 |-> [message_id |-> i,
                               guild_id |-> IF i = 1 THEN "g1" ELSE "g2",
                               is_test |-> FALSE, created_at |-> i]]
  /\ votes = [i \in 1..2 |-> [message_id |-> i, user_id |-> 1,
                               display_name |-> display_name(1),
                               emoji |-> poll_emojis[1]]]
  /\ servers = Guilds /\ clock = 2
  /\ events = <<>> /\ nEvents = 0
  /\ handlers = NoHandlers
  /\ lost = [u \in Users |-> "none"]
  /\ nTicks = 0 /\ nCmds = 0
  /\ pubs = NoPubs /\ joined = Guilds
  /\ lastOp = Op("init", "g1")

MaxOps == 3         \* reaction changes, commands and publishes in one behaviour
Started == nEvents + nCmds + Len(pubs)

\* Reaction changes, admin commands and publishes in two guilds, each begun
\* when the handlers and publishes before it are over.
NextTwoGuilds ==
  \/ /\ Quiet /\ PubQuiet /\ Started < MaxOps
     /\ \/ UserStep
        \/ AdminStep
        \/ \E g \in Guilds, a \in ManualActions : manual_poll_command(g, a)
  \/ HandlerStep
  \/ PublishStep
SpecTwoGuilds == InitTwoGuilds /\ [][NextTwoGuilds]_vars

\* ------------------------------------------------------------- store calls
\* cleanup_old_data as one bulk DELETE on the polls table, which the ORM
\* cascade does not see
cleanup_old_data_bulk(ps, vs, cutoff) ==
  [polls |-> SelectSeq(ps, LAMBDA r : ~(r.created_at < cutoff)), votes |-> vs]

\* cleanup_old_data with cutoff_date = cutoff: every poll created before it
\* is deleted through the session, and its votes with it (delete-orphan)
cleanup_old_data(ps, vs, cutoff) ==
  LET dead == {ps[i].message_id : i \in {j \in DOMAIN ps : ps[j].created_at < cutoff}}
  IN [polls |-> SelectSeq(ps, LAMBDA r : r.message_id \notin dead),
      votes |-> SelectSeq(vs, LAMBDA v : v.message_id \notin dead)]

MaxStoreOps == 3    \* calls of the store in one behaviour

StoreOp(name, g) ==
  /\ nCmds < MaxStoreOps /\ nCmds' = nCmds + 1
  /\ lastOp' = Op(name, g)
  /\ UNCHANGED <<messages, live, rendered, cache, events, nEvents, handlers, lost,
                 servers, cfgVars, jobs, now, nTicks, botVars>>

\* the publisher stores the poll of a message it has just sent; without a
\* server row create_poll raises and the session is rolled back
StoreCreate(g, test) ==
  LET made == create_poll(polls, votes, g, nextMsg, test, clock + 1)
  IN /\ StoreOp("create_poll", g)
     /\ nextMsg' = nextMsg + 1
     /\ IF g \in servers
        THEN polls' = made.polls /\ votes' = made.votes /\ clock' = clock + 1
        ELSE UNCHANGED <<polls, votes, clock>>

\* a handler stores or removes the vote of user u on message m, which
\* active_polls may hold long after the poll row is gone
StoreSave(m, u, e) ==
  /\ StoreOp("save_vote", "g1")
  /\ votes' = save_vote(votes, polls, m, u, e)
  /\ UNCHANGED <<polls, clock, nextMsg>>

StoreRemove(m, u) ==
  /\ StoreOp("remove_vote", "g1")
  /\ votes' = remove_vote(votes, polls, m, u)
  /\ UNCHANGED <<polls, clock, nextMsg>>

\* the admin tool's `cleanup --days N`
StoreCleanup(cutoff) ==
  LET kept == cleanup_old_data(polls, votes, cutoff)
  IN /\ StoreOp("cleanup_old_data", "g1")
     /\ polls' = kept.polls /\ votes' = kept.votes
     /\ UNCHANGED <<clock, nextMsg>>

\* The store specification starts when guild g1, the only guild with a
\* server row, has had KeepPolls polls stored and user 1 has voted on each.
InitStore ==
  /\ polls = [i \in 1..KeepPolls |-> [message_id |-> i, guild_id |-> "g1",
                                       is_test |-> FALSE, created_at |-> i]]
  /\ votes = [i \in 1..KeepPolls |-> [message_id |-> i, user_id |-> 1,
                                       display_name |-> display_name(1),
                                       emoji |-> poll_emojis[1]]]
  /\ clock = KeepPolls /\ servers = {"g1"}
  /\ messages = 1..KeepPolls /\ nextMsg = KeepPolls + 1
  /\ live = {<<m, a, poll_emojis[1]>> : m \in 1..KeepPolls, a \in {Bot, 1}}
  /\ cache = {<<m, a, poll_emojis[1]>> : m \in 1..KeepPolls, a \in {Bot, 1}}
  /\ rendered = [m \in 1..KeepPolls |-> (poll_emojis[1] :> <<display_name(1)>>)]
  /\ active_polls = [m \in 1..KeepPolls |-> PollInfo("g1", <<1>>, FALSE)]
  /\ heap = <<FileConfig(TRUE, "c1", 20, 0, "Europe/Sofia", <<1>>,
                         <<KeepPolls - 1, KeepPolls>>)>>
  /\ configs = [g \in Guilds |-> IF g = "g1" THEN 1 ELSE 0]
  /\ jobs = schedule_guild_poll(<<>>, "g1", heap[1], BootTime)
  /\ now = BootTime
  /\ events = <<>> /\ nEvents = 0
  /\ handlers = NoHandlers
  /\ lost = [u \in Users |-> "none"]
  /\ nTicks = 0 /\ nCmds = 0
  /\ pubs = NoPubs /\ joined = Guilds
  /\ lastOp = Op("init", "g1")

NextStore ==
  \/ \E g \in Guilds, test \in BOOLEAN : StoreCreate(g, test)
  \/ \E m \in 1..(nextMsg - 1), u \in Users, e \in ReactEmojis : StoreSave(m, u, e)
  \/ \E m \in 1..(nextMsg - 1), u \in Users : StoreRemove(m, u)
  \/ \E cutoff \in 1..(clock + 1) : StoreCleanup(cutoff)
SpecStore == InitStore /\ [][NextStore]_vars

\* ------------------------------------------------------------------ claims
LiveOf(m, u) == {e \in ReactEmojis : <<m, u, e>> \in live}
Stored(m, u) == FirstVote(votes, m, u) > 0
StoredEmoji(m, u) == votes[FirstVote(votes, m, u)].emoji
Tracked == DOMAIN active_polls
\* the groups of the tally of message m that list user u
GroupsOf(m, u) ==
  LET t == get_poll_votes(votes, polls, m)
  IN {e \in DOMAIN t : display_name(u) \in Range(t[e])}

\* C1: the vote store never holds two rows for the same (poll, voter),
\* whatever reaction events arrive and however the handlers interleave.
C1_OneVotePerVoter ==
  \A i, j \in DOMAIN votes :
    (votes[i].message_id = votes[j].message_id /\ votes[i].user_id = votes[j].user_id)
      => i = j

\* C1 witness: a user holding two option reactions was saved twice by one
\* reconciliation run, the second save overwriting the row of the first.
C1_Witness ==
  /\ Quiet
  /\ \E u \in Users : LiveOf(1, u) = {1, 2} /\ Stored(1, u) /\ StoredEmoji(1, u) = 2
  /\ Len(active_polls[1].poll_options) = 2

\* C2: with every event handled to completion before the next, the tally
\* lists each user under exactly one option the user has live on the
\* message, and lists no user who has no live option reaction.
C2_TallyIsNetChoice ==
  Quiet =>
    \A m \in Tracked, u \in Users :
      LET mine == LiveOf(m, u) \cap OptionEmojis(active_polls[m])
      IN /\ mine = {} => GroupsOf(m, u) = {}
         /\ mine # {} => \E e \in mine : GroupsOf(m, u) = {e}

\* What the code guarantees in place of C2: the tally is a function of the
\* live reactions, each user being listed under the last palette emoji,
\* option or not, the user has live.
C2_TallyFollowsPalette ==
  Quiet =>
    \A m \in Tracked, u \in Users :
      LET mine == LiveOf(m, u) \cap Range(active_polls[m].emojis)
      IN /\ mine = {} => GroupsOf(m, u) = {}
         /\ mine # {} => GroupsOf(m, u) = {CHOOSE e \in mine : \A f \in mine : f <= e}

\* C3: once all handlers have finished and no event is in flight, a user
\* with no live reaction has no stored vote, and a user with a live option
\* reaction has a stored vote for a reaction the user has live.
C3_Converges ==
  Quiet =>
    \A m \in Tracked, u \in Users :
      /\ LiveOf(m, u) = {} => ~Stored(m, u)
      /\ LiveOf(m, u) \cap OptionEmojis(active_polls[m]) # {}
           => Stored(m, u) /\ StoredEmoji(m, u) \in LiveOf(m, u)

\* C4: a user whose reaction-removed event was lost, and who has no live
\* reaction left, has no stored vote once a later event of another user has
\* been reconciled.
C4_MissedRemovalRepaired ==
  \A m \in Tracked, u \in Users :
    (lost[u] = "resynced" /\ LiveOf(m, u) = {}) => ~Stored(m, u)

\* C10: every stored vote, and every key of the tally, is the emoji of one
\* of the options of its poll.
C10_OnlyOptionEmojis ==
  \A m \in Tracked :
    /\ \A i \in DOMAIN votes :
         votes[i].message_id = m => votes[i].emoji \in OptionEmojis(active_polls[m])
    /\ DOMAIN get_poll_votes(votes, polls, m) \subseteq OptionEmojis(active_polls[m])

\* The part of C10 the code keeps: an emoji outside the palette is never stored.
C10_OnlyPaletteEmojis ==
  \A i \in DOMAIN votes : votes[i].emoji \in Range(poll_emojis)

JobsOf(g) == {i \in DOMAIN jobs : jobs[i].id = JobId(g)}

\* C5: no guild ever has two triggers, and a schedule_guild_poll call for a
\* guild that had a trigger leaves exactly one, carrying the hour, minute and
\* zone the call was given.
C5_OneTriggerAfterReplace ==
  /\ \A g \in Guilds : Cardinality(JobsOf(g)) <= 1
  /\ (lastOp.scheduled /\ lastOp.had) =>
       /\ Cardinality(JobsOf(lastOp.guild)) = 1
       /\ get_job(jobs, JobId(lastOp.guild)).trigger =
            [hour |-> lastOp.config.poll_hour, minute |-> lastOp.config.poll_minute,
             timezone |-> lastOp.config.timezone]

\* C5 witness: a time command has just rescheduled a guild that had a
\* trigger at another hour.
C5_Witness ==
  /\ lastOp.op = "time_command" /\ lastOp.scheduled /\ lastOp.had
  /\ lastOp.config.poll_hour = 23
  /\ has_job(jobs, JobId(lastOp.guild))

\* C6: right after schedule_guild_poll with a valid hour, minute and zone,
\* get_next_poll_time is a time later than now at which the clock of the
\* configured zone shows the configured hour and minute.
C6_NextTimeMatchesConfig ==
  (lastOp.scheduled /\ ValidSchedule(lastOp.config)) =>
    LET t == get_next_poll_time(jobs, lastOp.guild)
    IN /\ t # None
       /\ t > now
       /\ LocalHour(t, lastOp.config.timezone) = lastOp.config.poll_hour
       /\ LocalMinute(t, lastOp.config.timezone) = lastOp.config.poll_minute

\* C6 witness: a guild in a zone west of UTC was scheduled at 23:59 local
\* time, which falls on the next UTC day.
C6_Witness ==
  /\ lastOp.scheduled /\ ValidSchedule(lastOp.config)
  /\ lastOp.config.timezone = "America/New_York"
  /\ lastOp.config.poll_hour = 23 /\ lastOp.config.poll_minute = 59
  /\ get_next_poll_time(jobs, lastOp.guild) > now

HistoryOf(g) == heap[configs[g]].poll_history
RowsOf(ps, g) == {ps[i] : i \in {j \in DOMAIN ps : ps[j].guild_id = g}}

\* C7: a post_daily_poll that started with 2 handles in the history and
\* completed with no call failing has deleted the message of the older
\* handle, kept the message of the newer one, and leaves the history as
\* <<the newer handle, the handle of the message it sent>>.
C7_ReplacesOldest ==
  (lastOp.op = "post_daily_poll" /\ Len(lastOp.config.poll_history) = KeepHistory) =>
    LET before == lastOp.config.poll_history
        after == HistoryOf(lastOp.guild)
    IN /\ before[1] \notin messages
       /\ before[2] \in messages
       /\ Len(after) = KeepHistory
       /\ after[1] = before[2]
       /\ after[2] \in messages \ Range(before)

\* C8: no guild's poll history ever holds more than 2 handles.
C8_HistoryAtMostTwo ==
  \A g \in Guilds : configs[g] # 0 => Len(HistoryOf(g)) <= KeepHistory

\* C9: every completed create_poll adds one row, the newest, and leaves the
\* guild with the 3 most recently created of its rows (test and real
\* alike) and no others; the rows of other guilds are untouched.
C9_KeepsThreeNewest ==
  [][clock' # clock =>
       LET before == Range(polls)
           after == Range(polls')
           new == after \ before
       IN /\ Cardinality(new) = 1
          /\ \A r \in new :
               LET g == r.guild_id
                   mine == RowsOf(polls, g) \cup new
                   newest == {x \in mine :
                                Cardinality({y \in mine : y.created_at > x.created_at})
                                  < KeepPolls}
               IN /\ \A x \in before : x.created_at < r.created_at
                  /\ RowsOf(polls', g) = newest
                  /\ Cardinality(RowsOf(polls', g)) <= KeepPolls
                  /\ Len(polls') = Cardinality(after)
                  /\ \A h \in Guilds \ {g} : RowsOf(polls', h) = RowsOf(polls, h)]_vars

\* C9 witness: a create_poll has evicted the oldest row of a guild that now
\* holds 3 rows, a test poll and a daily poll among them.
C9_Witness ==
  /\ lastOp.op \in {"post_daily_poll", "post_test_poll"}
  /\ Cardinality(RowsOf(polls, "g1")) = KeepPolls
  /\ \A r \in RowsOf(polls, "g1") : r.created_at > 1
  /\ \E r \in RowsOf(polls, "g1") : r.is_test
  /\ \E r \in RowsOf(polls, "g1") : ~r.is_test
  /\ lastOp.guild = "g1" /\ clock > KeepPolls

\* the timezone setting stored for guild g, "" when g has no config
TimezoneOf(hp, cf, g) == IF cf[g] = 0 THEN "" ELSE hp[cf[g]].timezone

\* C11: a timezone command with a name that does not resolve changes neither
\* the job store nor any config, and a schedule_guild_poll call with a zone
\* that does not resolve leaves the job store and the guild's stored
\* timezone as they were.
C11_UnknownZoneKeepsSchedule ==
  [][/\ lastOp'.op = "timezone_rejected" =>
          jobs' = jobs /\ heap' = heap /\ configs' = configs
     /\ (lastOp'.scheduled /\ lastOp'.config.timezone \notin KnownZones) =>
          /\ jobs' = jobs
          /\ configs[lastOp'.guild] # 0 =>
               TimezoneOf(heap', configs', lastOp'.guild)
                 = TimezoneOf(heap, configs, lastOp'.guild)]_vars

\* C11 witness: an unknown zone name was just rejected for a guild that has
\* a trigger in a zone other than UTC.
C11_Witness ==
  /\ lastOp.op = "timezone_rejected"
  /\ has_job(jobs, JobId(lastOp.guild))
  /\ get_job(jobs, JobId(lastOp.guild)).trigger.timezone # "UTC"
  /\ TimezoneOf(heap, configs, lastOp.guild)
       = get_job(jobs, JobId(lastOp.guild)).trigger.timezone

\* C12: whenever schedule_guild_poll has returned to its caller, the guild
\* has a trigger.
C12_ReturnsWithTrigger ==
  lastOp.scheduled => has_job(jobs, JobId(lastOp.guild))

\* C13: when a publish started by a trigger ends early or fails (guild gone,
\* publishing off or no channel, send denied, no server row for the poll),
\* no step of it or of anything running beside it takes a trigger out of the
\* job store or changes it: every guild's job stays registered with its
\* trigger, and the job that fired is due again at a later instant.
C13_FailureKeepsTriggers ==
  [][\A i \in DOMAIN jobs :
       /\ has_job(jobs', jobs[i].id)
       /\ get_job(jobs', jobs[i].id).trigger = jobs[i].trigger
       /\ get_job(jobs', jobs[i].id).next_run_time >= jobs[i].next_run_time
       /\ get_job(jobs', jobs[i].id).next_run_time >= now']_vars

\* C13 witness: the publish the trigger of g1 started has failed at the send,
\* and both guilds' jobs are registered, the one of g1 due the next day.
C13_Witness ==
  /\ \E p \in DOMAIN pubs :
       /\ pubs[p].origin = "job" /\ pubs[p].guild = "g1"
       /\ pubs[p].pc = "done" /\ pubs[p].outcome = "failed" /\ pubs[p].fault
  /\ has_job(jobs, JobId("g2"))
  /\ get_next_poll_time(jobs, "g1") = now + MinutesPerDay

\* C14: unschedule_guild_poll, which `!poll disable` calls, removes the
\* guild's job when it has one and leaves the job store as it was when it has
\* none; the jobs of the other guilds are the same before and after, and
\* get_next_poll_time of the guild then returns None.
C14_UnscheduleRemovesOnlyOwn ==
  [][lastOp'.op = "disable_command" =>
       LET g == lastOp'.guild
       IN /\ ~has_job(jobs', JobId(g))
          /\ get_next_poll_time(jobs', g) = None
          /\ \A o \in Guilds \ {g} :
               {j \in Range(jobs') : j.id = JobId(o)}
                 = {j \in Range(jobs) : j.id = JobId(o)}
          /\ Len(jobs') = Len(jobs) - (IF has_job(jobs, JobId(g)) THEN 1 ELSE 0)
          /\ ~has_job(jobs, JobId(g)) => jobs' = jobs]_vars

\* C14 witness: `!poll disable` has removed the job of a guild while the
\* other guild keeps its own.
C14_Witness ==
  /\ lastOp.op = "disable_command" /\ lastOp.had
  /\ ~has_job(jobs, JobId(lastOp.guild))
  /\ \E o \in Guilds \ {lastOp.guild} : has_job(jobs, JobId(o))

\* a publish task whose `channel.send` was denied: it holds no message
SendDenied(task) == task.outcome = "failed" /\ task.fault /\ task.msg = 0

\* C15: the step at which the send of a publish is denied, and every later
\* step of that publish, creates no poll row, adds no entry to active_polls
\* and appends nothing to a poll_history.
C15_DeniedSendRecordsNothing ==
  [][\A p \in DOMAIN pubs :
       (pubs[p].pc \in {"send", "confirm"} /\ pubs'[p] # pubs[p]
          /\ SendDenied(pubs'[p])) =>
         /\ polls' = polls
         /\ active_polls' = active_polls
         /\ \A i \in DOMAIN heap : heap'[i].poll_history = heap[i].poll_history]_vars

\* C15 witness: a daily publish that had already dropped the oldest history
\* entry was denied at the send and is over.
C15_Witness ==
  \E p \in DOMAIN pubs :
    /\ SendDenied(pubs[p]) /\ pubs[p].pc = "done" /\ pubs[p].kind = "daily"
    /\ pubs[p].oldest # 0
    /\ pubs[p].guild \in joined
    /\ Len(heap[pubs[p].cfg].poll_history) < KeepHistory

\* C16: a `!poll manual daily` whose publish failed with an exception other
\* than a denied platform call (here: create_poll found no server row) has
\* told the requester of the failure.
C16_ManualDailyReportsFailure ==
  \A p \in DOMAIN pubs :
    (/\ pubs[p].origin = "command" /\ pubs[p].kind = "daily"
     /\ pubs[p].pc = "done"
     /\ pubs[p].outcome = "failed" /\ ~pubs[p].fault) =>
      pubs[p].reply = "error"

\* the reaction event a handler takes from the queue in this step
Delivered == events # <<>> /\ events' = Tail(events)

\* C17: a reaction event on a message that active_polls does not hold
\* starts no handler work, deletes and stores no vote, and edits no message.
C17_UntrackedEventIgnored ==
  [][(Delivered /\ Head(events).msg \notin DOMAIN active_polls) =>
       /\ votes' = votes /\ polls' = polls
       /\ handlers' = handlers
       /\ rendered' = rendered]_vars

\* C17 witness: a user's reaction events on the untracked poll message 1,
\* among them the removal of the reaction their stored vote came from, were
\* all handled, and the vote is still stored.
C17_Witness ==
  /\ Quiet /\ nEvents > 0
  /\ <<1, 1, poll_emojis[1]>> \notin cache
  /\ 1 \notin DOMAIN active_polls
  /\ FirstVote(votes, 1, 1) > 0

\* C18: no vote row carries a bot as its user; an event whose actor is a bot
\* changes no vote, starts no handler work and edits no message.
C18_NoVoteOfBot ==
  [][/\ \A i \in DOMAIN votes' : votes'[i].user_id # Bot
     /\ (Delivered /\ Head(events).user = Bot) =>
          /\ votes' = votes
          /\ handlers' = handlers
          /\ rendered' = rendered]_vars

\* C18 witness: the bot's reaction on the tracked poll was delivered and is
\* in the message's reactions, a user has voted on that poll since, and the
\* reconciliation listing both of them has finished.
C18_Witness ==
  /\ Quiet
  /\ \E e \in ReactEmojis : <<2, Bot, e>> \in cache /\ e \notin Range(poll_emojis)
  /\ \E u \in Users : FirstVote(votes, 2, u) > 0
                        /\ <<2, Bot, votes[FirstVote(votes, 2, u)].emoji>> \in live

\* the option list guild g has in its config now
ConfiguredOptions(g) == IF configs[g] = 0 THEN <<>> ELSE heap[configs[g]].poll_options

\* C19: an entry of active_polls is never changed or dropped once it is
\* there, whatever happens to the guild's config afterwards, and a new entry
\* holds the first MaxOptions options of the list its poll was rendered with.
C19_EntryKeepsPublishedOptions ==
  [][/\ \A m \in DOMAIN active_polls :
          m \in DOMAIN active_polls' /\ active_polls'[m] = active_polls[m]
     /\ \A m \in DOMAIN active_polls' \ DOMAIN active_polls :
          \E p \in DOMAIN pubs :
            /\ pubs[p].msg = m
            /\ active_polls'[m].poll_options
                 = Take(pubs[p].seen.poll_options, MaxOptions)]_vars

\* C19 witness: a poll of guild g1 is tracked with the options it was
\* published with, and the guild, which removed the bot and added it again,
\* now has another option list in its config.
C19_Witness ==
  \E p \in DOMAIN pubs :
    /\ pubs[p].guild = "g1" /\ pubs[p].outcome = "ok"
    /\ pubs[p].msg \in DOMAIN active_polls
    /\ active_polls[pubs[p].msg].poll_options = pubs[p].seen.poll_options
    /\ "g1" \in joined
    /\ ConfiguredOptions("g1") = DefaultOptions
    /\ DefaultOptions # pubs[p].seen.poll_options

\* C20: every stored vote is a vote on a poll that has its row: the
\* retention of create_poll and cleanup_old_data delete the votes of the
\* rows they delete.
C20_VotesHaveTheirPoll ==
  \A i \in DOMAIN votes : PollExists(polls, votes[i].message_id)

\* C20 witness: the retention of create_poll has deleted poll 1 and
\* cleanup_old_data poll 2, each with a vote on it, and a vote on a poll that
\* is left is still stored.
C20_Witness ==
  /\ lastOp.op = "cleanup_old_data"
  /\ ~PollExists(polls, 1) /\ ~PollExists(polls, 2)
  /\ PollExists(polls, KeepPolls) /\ PollExists(polls, KeepPolls + 1)
  /\ FirstVote(votes, KeepPolls, 1) > 0

C22_TriggerIffEnabled ==
  \A g \in Guilds :
    (configs[g] # 0 => ValidSchedule(heap[configs[g]])) =>
      (has_job(jobs, JobId(g)) <=> (configs[g] # 0 /\ heap[configs[g]].enabled))

\* the effects of a finished daily publish of task p
Published(p) ==
  /\ pubs[p].outcome = "ok"
  /\ pubs[p].msg \in messages
  /\ PollExists(polls, pubs[p].msg)
  /\ pubs[p].msg \in Range(heap[pubs[p].cfg].poll_history)
  /\ pubs[p].msg \in DOMAIN active_polls

\* C23: a publish the trigger started goes on to its end whether or not the
\* guild is disabled meanwhile, and, unless a platform call of it failed or
\* the guild has no server row, its last step leaves the message sent, the
\* poll row created, the history appended to and the active_polls entry set;
\* a guild without a job gets no further publish from the scheduler.
C23_InFlightPublishCompletes ==
  /\ [][\A p \in DOMAIN pubs :
          (/\ pubs[p].pc # "done" /\ pubs'[p].pc = "done"
           /\ pubs[p].origin = "job"
           /\ ~pubs'[p].fault /\ pubs[p].guild \in servers) => Published(p)']_vars
  /\ [][\A g \in Guilds :
          ~has_job(jobs, JobId(g)) =>
            ~(/\ Len(pubs') > Len(pubs)
              /\ pubs'[Len(pubs')].guild = g
              /\ pubs'[Len(pubs')].origin = "job")]_vars
  /\ \A p \in 1..MaxPubs :
       (p \in DOMAIN pubs) ~> (p \in DOMAIN pubs /\ pubs[p].pc = "done")

\* C23 witness: the guild was disabled after the trigger started the publish
\* and before the publish took its last step; that step, just taken, has
\* left the poll published, the config disabled and no job.
C23_Witness ==
  /\ Len(pubs) = 1 /\ pubs[1].origin = "job" /\ pubs[1].guild = "g1"
  /\ pubs[1].pc = "done" /\ Published(1)
  /\ ~heap[configs["g1"]].enabled /\ ~has_job(jobs, JobId("g1"))
  /\ pubs[1].seen.enabled
  /\ lastOp.op = "post_daily_poll"

\* C24: active_polls holds no entry for a poll whose message the retention
\* of post_daily_poll has deleted or dropped from the guild's history.
C24_EvictedNotTracked ==
  \A m \in DOMAIN active_polls :
    /\ m \in messages
    /\ ~active_polls[m].is_test =>
         \E i \in DOMAIN heap : m \in Range(heap[i].poll_history)

\* a poll with a stored row that active_polls does not hold: it was published
\* before the last start of the process
OldPoll(m) == PollExists(polls, m) /\ m \notin DOMAIN active_polls

GuildOfMessage(m) ==
  {polls[i].guild_id : i \in {j \in DOMAIN polls : polls[j].message_id = m}}
GuildView(g) ==
  [config |-> IF configs[g] = 0 THEN <<>> ELSE <<heap[configs[g]]>>,
   jobs |-> {j \in Range(jobs) : j.id = JobId(g)},
   rows |-> RowsOf(polls, g),
   votes |-> SelectSeq(votes, LAMBDA v : g \in GuildOfMessage(v.message_id))]

\* the guilds a step is for: the guild of the command or publish that took
\* it, or the guild of the poll whose reaction event is being handled
StepGuilds ==
  IF nCmds' # nCmds \/ pubs' # pubs THEN {lastOp'.guild}
  ELSE LET ms == (IF events # <<>> THEN {Head(events).msg} ELSE {})
                   \cup {handlers[h].msg : h \in {k \in HandlerIds :
                                                     handlers[k].pc # "idle"}}
       IN {active_polls[m].guild_id : m \in ms \cap DOMAIN active_polls}

\* C26: a step of a publish, of a reaction handler or of an admin command
\* for one guild leaves the config, the poll history, the jobs, the poll rows
\* and the votes of every other guild as they were.
C26_OtherGuildUntouched ==
  [][\A b \in Guilds \ StepGuilds : GuildView(b)' = GuildView(b)]_vars

\* C26 witness: the latest step was a command that re-scheduled g2; g1 had a
\* publish and the removal of a vote of its own; each guild still has its
\* first poll row, g2 its vote and g1 its trigger.
C26_Witness ==
  /\ lastOp.guild = "g2" /\ lastOp.op # "await"
  /\ Cardinality(RowsOf(polls, "g1")) > 1
  /\ \E r \in RowsOf(polls, "g2") : r.message_id = 2
  /\ \E r \in RowsOf(polls, "g1") : r.message_id = 1
  /\ FirstVote(votes, 1, 1) = 0 /\ FirstVote(votes, 2, 1) > 0
  /\ get_job(jobs, JobId("g2")).trigger # CronTrigger(8, 0, "UTC")
  /\ get_job(jobs, JobId("g1")).trigger = CronTrigger(20, 0, "Europe/Sofia")

\* the option reactions user u holds on message m
OptionReactions(m, u) == LiveOf(m, u) \cap OptionEmojis(active_polls[m])

\* C27: once the removal of a reaction by user u on a tracked poll has been
\* delivered and reconciled, u, if no option reaction of u is left on the
\* message, has no stored vote on the poll and is in no group of its tally.
C27_RemovalClearsVote ==
  \A u \in Users, m \in {1} :
    (/\ events # <<>> /\ Head(events).kind = "remove"
     /\ Head(events).user = u /\ Head(events).msg = m
     /\ m \in DOMAIN active_polls)
    ~> (/\ Quiet
        /\ OptionReactions(m, u) = {} =>
             /\ FirstVote(votes, m, u) = 0
             /\ \A e \in DOMAIN rendered[m] :
                  display_name(u) \notin Range(rendered[m][e]))

\* the indexes, in the poll's emoji order, of the options user u holds a live
\* reaction for on message m
HeldOptions(m, u) ==
  {i \in 1..Len(active_polls[m].poll_options) :
     <<m, u, active_polls[m].emojis[i]>> \in live}

\* the rows of the votes table of user u on the poll of message m
VoteRows(m, u) ==
  {i \in DOMAIN votes : votes[i].message_id = m /\ votes[i].user_id = u}

\* C28: once every event is reconciled, a user who holds live reactions for
\* two or more options of a tracked poll has exactly one stored vote, and it
\* is for the option latest in the poll's emoji order among those held.
C28_LastOptionWins ==
  Quiet =>
    \A m \in DOMAIN active_polls, u \in Users :
      Cardinality(HeldOptions(m, u)) >= 2 =>
        /\ Cardinality(VoteRows(m, u)) = 1
        /\ \A v \in VoteRows(m, u), i \in HeldOptions(m, u) :
             /\ \E j \in HeldOptions(m, u) : votes[v].emoji = active_polls[m].emojis[j]
             /\ \A j \in HeldOptions(m, u) :
                  votes[v].emoji = active_polls[m].emojis[j] => i <= j

\* the reactions the bot has attached to message m
Affordances(m) == {e \in Range(poll_emojis) : <<m, Bot, e>> \in live}

\* C29: in the snapshot of a published poll the emoji list and the option
\* list both have min(number of configured options, 7) entries, and, no
\* add_reaction call having failed, the message carries that many reactions
\* of the bot.
C29_SnapshotListsAligned ==
  \A p \in DOMAIN pubs :
    (pubs[p].outcome = "ok" /\ pubs[p].msg \in DOMAIN active_polls
       /\ pubs[p].msg \in messages) =>
      LET info == active_polls[pubs[p].msg]
          k == Min(Len(pubs[p].seen.poll_options), 7)
      IN /\ Len(info.poll_options) = k
         /\ Len(info.emojis) = k
         /\ ~pubs[p].fault => Cardinality(Affordances(pubs[p].msg)) = k

\* C30: a step of a test publish, from its start to its reply, deletes no
\* message and leaves every poll history as it is; a config it creates has an
\* empty history.
C30_TestPublishKeepsHistory ==
  [][(\E p \in DOMAIN pubs' :
        /\ pubs'[p].kind = "test"
        /\ p \in DOMAIN pubs => pubs'[p] # pubs[p])
     => /\ messages \subseteq messages'
        /\ \A i \in DOMAIN heap' :
             heap'[i].poll_history
               = IF i \in DOMAIN heap THEN heap[i].poll_history ELSE <<>>]_vars

\* C30 witness: a test publish has succeeded for a guild whose history is
\* full, and every message of the history is still there.
C30_Witness ==
  \E p \in DOMAIN pubs :
    /\ pubs[p].kind = "test" /\ pubs[p].outcome = "ok"
    /\ lastOp.op = "post_test_poll"
    /\ Len(heap[pubs[p].cfg].poll_history) = KeepHistory
    /\ Range(heap[pubs[p].cfg].poll_history) \subseteq messages
    /\ pubs[p].msg \notin Range(heap[pubs[p].cfg].poll_history)

\* C31: when fetching or deleting the oldest poll's message fails, that step
\* drops the oldest handle from the history and goes on to the send, deleting
\* nothing; and the last step of a publish that met such a failure leaves the
\* new poll published and the old handle out of the history.
C31_FailedDeleteStillPublishes ==
  [][\A p \in DOMAIN pubs :
       /\ (/\ pubs[p].pc \in {"fetch", "delete"}
           /\ pubs'[p].pc \notin {"fetch", "delete"}
           /\ pubs'[p].fault \/ pubs[p].oldest \notin messages)
          => /\ pubs'[p].pc = "send"
             /\ messages' = messages
             /\ pubs[p].oldest = Head(heap[pubs[p].cfg].poll_history)
             /\ heap'[pubs[p].cfg].poll_history = Tail(heap[pubs[p].cfg].poll_history)
       /\ (/\ pubs[p].pc = "react" /\ pubs'[p].pc # "react"
           /\ pubs[p].kind = "daily" /\ pubs[p].oldest \in messages
           /\ pubs[p].guild \in servers)
          => /\ pubs'[p].fault
             /\ Published(p)'
             /\ pubs[p].oldest \notin Range(heap'[pubs[p].cfg].poll_history)]_vars

\* C31 witness: a publish whose delete of the oldest poll failed has ended;
\* the old message is still in the channel, its handle is out of the history
\* and the new poll is published.
C31_Witness ==
  \E p \in DOMAIN pubs :
    /\ pubs[p].pc = "done" /\ pubs[p].fault /\ pubs[p].oldest \in messages
    /\ pubs[p].oldest \notin Range(heap[pubs[p].cfg].poll_history)
    /\ Published(p)
    /\ Len(heap[pubs[p].cfg].poll_history) = KeepHistory

\* C32: a failed add_reaction is followed by the attempt for the next option,
\* or, after the last option, by the end of the publish; the last step of a
\* publish one of whose reactions failed creates the poll row and registers
\* the active_polls entry, the guild having its server row.
C32_FailedReactionStillPublishes ==
  [][\A p \in DOMAIN pubs :
       (pubs[p].pc = "react" /\ pubs'[p] # pubs[p] /\ pubs'[p].fault) =>
         IF pubs[p].idx < Len(Take(pubs[p].seen.poll_options, MaxOptions))
         THEN pubs'[p].pc = "react" /\ pubs'[p].idx = pubs[p].idx + 1
         ELSE /\ pubs'[p].pc = AfterPublish(pubs[p])
              /\ pubs[p].guild \in servers =>
                   /\ pubs'[p].outcome = "ok"
                   /\ PollExists(polls', pubs[p].msg)
                   /\ pubs[p].msg \in DOMAIN active_polls']_vars

\* C32 witness: a publish with two options is over; the reaction of the
\* first option failed, that of the second is on the message, and the poll is
\* recorded and tracked.
C32_Witness ==
  \E p \in DOMAIN pubs :
    /\ pubs[p].pc = "done" /\ pubs[p].fault /\ pubs[p].outcome = "ok"
    /\ pubs[p].guild \in joined
    /\ Len(pubs[p].seen.poll_options) = 2
    /\ <<pubs[p].msg, Bot, poll_emojis[1]>> \notin live
    /\ <<pubs[p].msg, Bot, poll_emojis[2]>> \in live
    /\ PollExists(polls, pubs[p].msg) /\ pubs[p].msg \in DOMAIN active_polls

\* C33: a step of the handler of a reaction event on a tracked poll sends and
\* deletes no message and leaves active_polls, the configs with their
\* histories and the poll rows as they are; it changes the votes and the
\* rendered tally of no poll but the one of its message.
C33_ReconcileTouchesOnePoll ==
  [][\A h \in HandlerIds :
       handlers'[h] # handlers[h] =>
         LET m == IF handlers[h].pc = "idle" THEN handlers'[h].msg ELSE handlers[h].msg
         IN /\ messages' = messages /\ nextMsg' = nextMsg
            /\ active_polls' = active_polls
            /\ heap' = heap /\ configs' = configs
            /\ polls' = polls
            /\ \A k \in messages \ {m} :
                 /\ VotesOf(votes', k) = VotesOf(votes, k)
                 /\ rendered'[k] = rendered[k]]_vars

\* C33 witness: the events on tracked poll 2 are reconciled, a vote on it is
\* stored and shown, and the vote stored on poll 1 is as it was.
C33_Witness ==
  /\ Quiet /\ nEvents > 0
  /\ VotesOf(votes, 2) # <<>> /\ rendered[2] # <<>>
  /\ VotesOf(votes, 1) = <<[message_id |-> 1, user_id |-> 1,
                            display_name |-> display_name(1),
                            emoji |-> poll_emojis[1]]>>
  /\ FirstVote(votes, 2, 1) > 0

\* C34: a tracked poll whose message is in its guild's history and in the
\* channel has its poll row in the store.
C34_RetainedPollHasRow ==
  \A g \in Guilds :
    configs[g] # 0 =>
      \A m \in Range(heap[configs[g]].poll_history) :
        (m \in DOMAIN active_polls /\ m \in messages) => PollExists(polls, m)

\* C35: when a non-test publish takes its last step, the handle it has put in
\* the guild's history has its poll row in the store and its entry in
\* active_polls.
C35_HistoryHandleTracked ==
  [][\A p \in DOMAIN pubs :
       (/\ pubs[p].kind = "daily" /\ pubs[p].outcome = "running"
        /\ pubs'[p].outcome # "running"
        /\ pubs'[p].msg \in Range(heap'[pubs[p].cfg].poll_history))
       => /\ PollExists(polls', pubs'[p].msg)
          /\ pubs'[p].msg \in DOMAIN active_polls']_vars

\* C36: when the send of a non-test publish is denied, the guild's history is
\* the one the publish found when it started, and the messages of that
\* history are all still in the channel.
C36_DeniedSendKeepsHistory ==
  [][\A p \in DOMAIN pubs :
       (/\ pubs[p].pc = "send" /\ pubs[p].kind = "daily"
        /\ SendDenied(pubs'[p]))
       => /\ heap'[pubs[p].cfg].poll_history = pubs[p].seen.poll_history
          /\ Range(pubs[p].seen.poll_history) \subseteq messages']_vars

\* C37: post_daily_poll entered for a guild whose config is disabled or has
\* no channel returns at once: that step, and the reply of the command that
\* called it, send no poll, delete no message and leave the poll rows, the
\* votes, active_polls and every poll history as they are.
C37_DisabledPublishesNothing ==
  [][/\ (/\ Len(pubs') = Len(pubs) + 1
         /\ pubs'[Len(pubs')].kind = "daily"
         /\ LET g == pubs'[Len(pubs')].guild
            IN \/ configs[g] = 0
               \/ ~heap[configs[g]].enabled
               \/ heap[configs[g]].channel_id = NoChannel)
        => /\ pubs'[Len(pubs')].outcome = "skipped"
           /\ pubs'[Len(pubs')].pc = AfterPublish(pubs'[Len(pubs')])
           /\ messages' = messages /\ nextMsg' = nextMsg
           /\ polls' = polls /\ votes' = votes
           /\ active_polls' = active_polls
           /\ \A i \in DOMAIN heap : heap'[i] = heap[i]
           /\ \A i \in DOMAIN heap' \ DOMAIN heap : heap'[i].poll_history = <<>>
     /\ \A p \in DOMAIN pubs :
          (pubs[p].outcome = "skipped" /\ pubs'[p] # pubs[p])
          => /\ pubs'[p].pc = "done" /\ pubs'[p].outcome = "skipped"
             /\ messages \subseteq messages'
             /\ polls' = polls /\ votes' = votes
             /\ active_polls' = active_polls /\ heap' = heap]_vars

\* C37 witness: the trigger and the manual daily command have both run
\* post_daily_poll for a guild the bot is in whose config is disabled, and
\* both calls have returned without publishing.
C37_Witness ==
  /\ Len(pubs) = 2 /\ "g1" \in joined /\ configs["g1"] # 0
  /\ ~heap[configs["g1"]].enabled
  /\ \A p \in 1..2 : /\ pubs[p].kind = "daily" /\ pubs[p].guild = "g1"
                     /\ pubs[p].outcome = "skipped" /\ pubs[p].pc = "done"
                     /\ ~pubs[p].seen.enabled
  /\ {pubs[1].origin, pubs[2].origin} = {"job", "command"}

\* C38: a guild the bot has left has no enabled config in the config store.
C38_RemovedConfigStaysRemoved ==
  \A g \in Guilds :
    g \notin joined => (configs[g] = 0 \/ ~heap[configs[g]].enabled)

\* C39: every enabled config has a channel, and `!poll enable` in a guild
\* whose config has no channel leaves the config disabled and the job store
\* as it is.
C39_EnabledHasChannel ==
  /\ [](\A g \in Guilds :
          (configs[g] # 0 /\ heap[configs[g]].enabled)
            => heap[configs[g]].channel_id # NoChannel)
  /\ [][(/\ nCmds' # nCmds /\ lastOp'.op = "enable_command"
         /\ LET g == lastOp'.guild
            IN configs[g] = 0 \/ heap[configs[g]].channel_id = NoChannel)
        => /\ jobs' = jobs
           /\ ~lastOp'.scheduled
           /\ ~heap'[configs'[lastOp'.guild]].enabled
           /\ heap'[configs'[lastOp'.guild]].channel_id = NoChannel]_vars

\* C39 witness: `!poll enable` was just refused in a guild on the default
\* config, which is still disabled and has no trigger.
C39_Witness ==
  /\ lastOp.op = "enable_command" /\ ~lastOp.scheduled /\ nCmds > 0
  /\ heap[configs[lastOp.guild]] = get_default_config
  /\ ~has_job(jobs, JobId(lastOp.guild))

\* C40: every stored config has its hour in 0..23 and its minute in 0..59,
\* and a time command answered with "Invalid Hour" or "Invalid Minute" leaves
\* the config store and the job store as they are.
C40_StoredTimeInRange ==
  /\ [](\A g \in Guilds :
          configs[g] # 0 =>
            /\ heap[configs[g]].poll_hour \in 0..23
            /\ heap[configs[g]].poll_minute \in 0..59)
  /\ [][(nCmds' # nCmds /\ lastOp'.op = "time_rejected")
        => /\ heap' = heap /\ configs' = configs
           /\ jobs' = jobs]_vars

\* C40 witness: a time command was just refused in an enabled guild whose
\* stored time, 23:59, was set by an earlier time command and is the time of
\* its trigger.
C40_Witness ==
  /\ lastOp.op = "time_rejected" /\ nCmds > 1
  /\ configs[lastOp.guild] # 0
  /\ LET config == heap[configs[lastOp.guild]]
     IN /\ config.enabled /\ config.poll_hour = 23 /\ config.poll_minute = 59
        /\ has_job(jobs, JobId(lastOp.guild))
        /\ get_job(jobs, JobId(lastOp.guild)).trigger.hour = 23
        /\ get_job(jobs, JobId(lastOp.guild)).trigger.minute = 59
====
